---------------------------- MODULE Spec2Model ----------------------------
(***************************************************************************)
(* A model of the joy compiler's semantic analysis (Pass1, src/passes.cpp) *)
(* and of its C emitter (src/codegen_c.cpp).                               *)
(*                                                                         *)
(* A syntactic program is a fixed library of declarations plus a body for  *)
(* `main` drawn from a pool of statements.  Pass1 is a deterministic,      *)
(* single-threaded recursive walk.  The recursion of the C++ code is kept  *)
(* as an explicit agenda: the calls still to be made, in order, each with  *)
(* its saved locals; a call leaves its result on the value stack vals.     *)
(* There is one action per member function, and one per point where a      *)
(* member function continues after a call it made has returned.            *)
(* Pointers are indices into the heap (0 is nullptr).  Source locations    *)
(* are not modelled.                                                       *)
(***************************************************************************)
EXTENDS Integers, Sequences, FiniteSets, TLC

VARIABLES input,     \* the statements of main's body (indices into Pool)
          phase,     \* "parsed" -> "analysed" -> "emitted"
          program,   \* the Program object (src/ast.hpp:489)
          heap,      \* the Type and FunctionInstantiation nodes created by new
          errors,    \* Errors::errors (src/ast.hpp:28)
          pass1,     \* the fields of the Pass1 object (src/passes.cpp:301)
          history,   \* history variable: the events of the walk, in order
          agenda,    \* the calls still to be made, the next one first
          vals,      \* the results of the calls made, the newest one last
          output,    \* the C text written by codegen_c, as tokens
          parser     \* a source text, and what the parser makes of it

vars ==
  <<input, phase, program, heap, errors, pass1, history, agenda, vals, output, parser>>

\* The longest body of main that is tried.
MaxStmts == 2
\* The number of ids after which instantiation is cut off (an analysis that
\* would go on creating instantiations is stopped in phase "diverged").
MaxId == 24

Null == 0
NullNode == [k |-> "null"]
IsNull(e) == e.k = "null"

-----------------------------------------------------------------------------
(* The syntactic AST (src/ast.hpp).                                        *)

IntLiteral(value) == [k |-> "IntLiteral", value |-> value, type |-> Null]
Name(name) == [k |-> "Name", name |-> name, type |-> Null]
BinaryExpression(operation, left, right) ==
  [k |-> "BinaryExpression", operation |-> operation, left |-> left,
   right |-> right, type |-> Null]
Assignment(left, right) ==
  [k |-> "Assignment", left |-> left, right |-> right, type |-> Null]
\* a Call constructor that does not keep the function id (a faulty variant,
\* kept for comparison)
CallId_unresolved(function_id, arguments) ==
  [k |-> "Call", expression |-> NullNode, arguments |-> arguments,
   function_id |-> 0, type |-> Null]

Call(expression, arguments) ==
  [k |-> "Call", expression |-> expression, arguments |-> arguments,
   function_id |-> 0, type |-> Null]
CallId(function_id, arguments) ==
  [k |-> "Call", expression |-> NullNode, arguments |-> arguments,
   function_id |-> function_id, type |-> Null]
MemberAccess(expression, member_name) ==
  [k |-> "MemberAccess", expression |-> expression,
   member_name |-> member_name, type |-> Null]
\* Expression(const Type*): the node a LetStatement of the IR keeps as its type
\* a with_type that does not set the type (a faulty variant)
with_type_dropped(expression, type) == expression

TypeExpression(type) == [k |-> "Expression", type |-> type]
with_type(expression, type) == [expression EXCEPT !.type = type]

BlockStatement(block) == [k |-> "BlockStatement", block |-> block]
EmptyStatement == [k |-> "EmptyStatement"]
LetStatement(name, type, expression) ==
  [k |-> "LetStatement", name |-> name, type |-> type, expression |-> expression]
IfStatement(condition, then_statement, else_statement) ==
  [k |-> "IfStatement", condition |-> condition,
   then_statement |-> then_statement, else_statement |-> else_statement]
WhileStatement(condition, statement) ==
  [k |-> "WhileStatement", condition |-> condition, statement |-> statement]
ReturnStatement(expression) == [k |-> "ReturnStatement", expression |-> expression]
ExpressionStatement(expression) ==
  [k |-> "ExpressionStatement", expression |-> expression]

Argument(name, type) == [name |-> name, type |-> type]
Function(name, template_arguments, arguments, return_type, block) ==
  [name |-> name, template_arguments |-> template_arguments,
   arguments |-> arguments, return_type |-> return_type, block |-> block]
Structure(name, template_arguments, members) ==
  [name |-> name, template_arguments |-> template_arguments, members |-> members]

-----------------------------------------------------------------------------
(* The programs.  Every program has the declarations below; they are only  *)
(* instantiated on demand from main.                                       *)

\* struct S { v: Int }  struct A { b: B }  struct B { a: A }
\* struct L { next: L }  struct Box<T> { item: T }
Structures ==
  << Structure("S", <<>>, <<Argument("v", Name("Int"))>>),
     Structure("A", <<>>, <<Argument("b", Name("B"))>>),
     Structure("B", <<>>, <<Argument("a", Name("A"))>>),
     Structure("L", <<>>, <<Argument("next", Name("L"))>>),
     Structure("Box", <<"T">>, <<Argument("item", Name("T"))>>) >>

\* func f(x: Int): Int { return x; }
\* func f(x: S): Int { return x.v; }
\* func id<T>(x: T): T { return x; }
\* func mkS(): S { return mkS(); }
\* func mkA(): A { return mkA(); }
\* func even(n: Int): Int { if (n) return odd(n - 1); return 1; }
\* func odd(n: Int): Int { if (n) return even(n - 1); return 0; }
\* func wrap<T>(x: T): Box<T> { return wrap(x); }
\* func print_int(x: Int) { }
\* func g(x: Int) { }
\* func g<T>(x: T) { }
\* func pair(x: S, n: Int): Int { return n; }
LibraryFunctions ==
  << Function("f", <<>>, <<Argument("x", Name("Int"))>>, Name("Int"),
       <<ReturnStatement(Name("x"))>>),
     Function("f", <<>>, <<Argument("x", Name("S"))>>, Name("Int"),
       <<ReturnStatement(MemberAccess(Name("x"), "v"))>>),
     Function("id", <<"T">>, <<Argument("x", Name("T"))>>, Name("T"),
       <<ReturnStatement(Name("x"))>>),
     Function("mkS", <<>>, <<>>, Name("S"),
       <<ReturnStatement(Call(Name("mkS"), <<>>))>>),
     Function("mkA", <<>>, <<>>, Name("A"),
       <<ReturnStatement(Call(Name("mkA"), <<>>))>>),
     Function("even", <<>>, <<Argument("n", Name("Int"))>>, Name("Int"),
       <<IfStatement(Name("n"),
           ReturnStatement(Call(Name("odd"),
             <<BinaryExpression("SUB", Name("n"), IntLiteral(1))>>)),
           EmptyStatement),
         ReturnStatement(IntLiteral(1))>>),
     Function("odd", <<>>, <<Argument("n", Name("Int"))>>, Name("Int"),
       <<IfStatement(Name("n"),
           ReturnStatement(Call(Name("even"),
             <<BinaryExpression("SUB", Name("n"), IntLiteral(1))>>)),
           EmptyStatement),
         ReturnStatement(IntLiteral(0))>>),
     Function("wrap", <<"T">>, <<Argument("x", Name("T"))>>,
       Call(Name("Box"), <<Name("T")>>),
       <<ReturnStatement(Call(Name("wrap"), <<Name("x")>>))>>),
     Function("print_int", <<>>, <<Argument("x", Name("Int"))>>, Name("Void"),
       <<>>),
     Function("g", <<>>, <<Argument("x", Name("Int"))>>, Name("Void"), <<>>),
     Function("g", <<"T">>, <<Argument("x", Name("T"))>>, Name("Void"), <<>>),
     Function("pair", <<>>, <<Argument("x", Name("S")), Argument("n", Name("Int"))>>,
       Name("Int"), <<ReturnStatement(Name("n"))>>) >>

\* The functions and structures of the further programs, declared after the
\* ones above.
\* func leak(): Int { return a; }
\* func same<T>(a: T, b: T): T { return a; }
\* func fresh<T>(): Int { return 1; }
\* func first<S>(x: S): S { return x; }
\* func relay<T>(x: T): T { inner(); let y: T = x; return y; }
\* func inner(): T { return inner(); }
\* func show(x: Int) { }
\* func print_int(x: S) { }
\* func print_int(x: Int, y: Int) { }
\* func h(x: Unknown) { }
\* func h(x: Box) { }
\* func h(x: Int) { }
\* func grow<T>(x: T) { grow(wrap(x)); }
\* struct G<T> { next: G<G<T>> }
CaseLibrary ==
  [functions |->
     << Function("leak", <<>>, <<>>, Name("Int"), <<ReturnStatement(Name("a"))>>),
        Function("same", <<"T">>, <<Argument("a", Name("T")), Argument("b", Name("T"))>>,
          Name("T"), <<ReturnStatement(Name("a"))>>),
        Function("fresh", <<"T">>, <<>>, Name("Int"),
          <<ReturnStatement(IntLiteral(1))>>),
        Function("first", <<"S">>, <<Argument("x", Name("S"))>>, Name("S"),
          <<ReturnStatement(Name("x"))>>),
        Function("relay", <<"T">>, <<Argument("x", Name("T"))>>, Name("T"),
          <<ExpressionStatement(Call(Name("inner"), <<>>)),
            LetStatement("y", Name("T"), Name("x")),
            ReturnStatement(Name("y"))>>),
        Function("inner", <<>>, <<>>, Name("T"),
          <<ReturnStatement(Call(Name("inner"), <<>>))>>),
        Function("show", <<>>, <<Argument("x", Name("Int"))>>, Name("Void"), <<>>),
        Function("print_int", <<>>, <<Argument("x", Name("S"))>>, Name("Void"), <<>>),
        Function("print_int", <<>>, <<Argument("x", Name("Int")),
                                      Argument("y", Name("Int"))>>, Name("Void"), <<>>),
        Function("h", <<>>, <<Argument("x", Name("Unknown"))>>, Name("Void"), <<>>),
        Function("h", <<>>, <<Argument("x", Name("Box"))>>, Name("Void"), <<>>),
        Function("h", <<>>, <<Argument("x", Name("Int"))>>, Name("Void"), <<>>),
        Function("grow", <<"T">>, <<Argument("x", Name("T"))>>, Name("Void"),
          <<ExpressionStatement(Call(Name("grow"),
              <<Call(Name("wrap"), <<Name("x")>>)>>))>>) >>,
   structures |->
     << Structure("G", <<"T">>,
          <<Argument("next", Call(Name("G"), <<Call(Name("G"), <<Name("T")>>)>>))>>) >>]

\* The statements main's body is made of.
Pool ==
  << \* 1: let a: Int = id(42);
     LetStatement("a", Name("Int"), Call(Name("id"), <<IntLiteral(42)>>)),
     \* 2: let s = id(mkS());
     LetStatement("s", NullNode, Call(Name("id"), <<Call(Name("mkS"), <<>>)>>)),
     \* 3: print_int(f(1));
     ExpressionStatement(Call(Name("print_int"),
       <<Call(Name("f"), <<IntLiteral(1)>>)>>)),
     \* 4: let x: Int = y;
     LetStatement("x", Name("Int"), Name("y")),
     \* 5: if (even(2)) { a = a + 1; } else ;
     IfStatement(Call(Name("even"), <<IntLiteral(2)>>),
       BlockStatement(<<ExpressionStatement(Assignment(Name("a"),
         BinaryExpression("ADD", Name("a"), IntLiteral(1))))>>),
       EmptyStatement),
     \* 6: while (s) { s.pair(1).even(); }
     WhileStatement(Name("s"),
       BlockStatement(<<ExpressionStatement(
         Call(MemberAccess(Call(MemberAccess(Name("s"), "pair"), <<IntLiteral(1)>>),
                           "even"),
              <<>>))>>)),
     \* 7: let a: S = 1;
     LetStatement("a", Name("S"), IntLiteral(1)),
     \* 8: mkA();
     ExpressionStatement(Call(Name("mkA"), <<>>)),
     \* 9: let w: Box<Int> = wrap(id(1));
     LetStatement("w", Call(Name("Box"), <<Name("Int")>>),
       Call(Name("wrap"), <<Call(Name("id"), <<IntLiteral(1)>>)>>)),
     \* 10: while (1 < 2) if (s.v) return;
     WhileStatement(BinaryExpression("LT", IntLiteral(1), IntLiteral(2)),
       IfStatement(MemberAccess(Name("s"), "v"), ReturnStatement(NullNode),
         EmptyStatement)),
     \* 11: let u: Unknown = 1;
     LetStatement("u", Name("Unknown"), IntLiteral(1)),
     \* 12: g(f(1));
     ExpressionStatement(Call(Name("g"),
       <<Call(Name("f"), <<IntLiteral(1)>>)>>)),
     \* 13: { let z = y; return z; }
     BlockStatement(<<LetStatement("z", NullNode, Name("y")),
                      ReturnStatement(Name("z"))>>) >>

\* The statements of the further programs, numbered on from those of Pool.
CasePool ==
  << \* 14: { { let a = mkS(); a.v; leak(); } a = a + 1; }
     BlockStatement(
       <<BlockStatement(
           <<LetStatement("a", NullNode, Call(Name("mkS"), <<>>)),
             ExpressionStatement(MemberAccess(Name("a"), "v")),
             ExpressionStatement(Call(Name("leak"), <<>>))>>),
         ExpressionStatement(Assignment(Name("a"),
           BinaryExpression("ADD", Name("a"), IntLiteral(1))))>>),
     \* 15: let b: S = id(same(1, 2));
     LetStatement("b", Name("S"),
       Call(Name("id"), <<Call(Name("same"), <<IntLiteral(1), IntLiteral(2)>>)>>)),
     \* 16: while (fresh()) same(1, mkS());
     WhileStatement(Call(Name("fresh"), <<>>),
       ExpressionStatement(Call(Name("same"),
         <<IntLiteral(1), Call(Name("mkS"), <<>>)>>))),
     \* 17: print_int(relay(first(1)));
     ExpressionStatement(Call(Name("print_int"),
       <<Call(Name("relay"), <<Call(Name("first"), <<IntLiteral(1)>>)>>)>>)),
     \* 18: { print_int(1); print_int(mkS()); print_int(1, 2); show(2); }
     BlockStatement(
       <<ExpressionStatement(Call(Name("print_int"), <<IntLiteral(1)>>)),
         ExpressionStatement(Call(Name("print_int"), <<Call(Name("mkS"), <<>>)>>)),
         ExpressionStatement(Call(Name("print_int"), <<IntLiteral(1), IntLiteral(2)>>)),
         ExpressionStatement(Call(Name("show"), <<IntLiteral(2)>>))>>),
     \* 19: h(1);
     ExpressionStatement(Call(Name("h"), <<IntLiteral(1)>>)),
     \* 20: { let n = 1; let n = mkS(); print_int(n); }
     BlockStatement(
       <<LetStatement("n", NullNode, IntLiteral(1)),
         LetStatement("n", NullNode, Call(Name("mkS"), <<>>)),
         ExpressionStatement(Call(Name("print_int"), <<Name("n")>>))>>),
     \* 21: if (1) return 1; else return mkS();
     IfStatement(IntLiteral(1), ReturnStatement(IntLiteral(1)),
                 ReturnStatement(Call(Name("mkS"), <<>>))),
     \* 22: grow(1);
     ExpressionStatement(Call(Name("grow"), <<IntLiteral(1)>>)),
     \* 23: let g: G<Int> = 1;
     LetStatement("g", Call(Name("G"), <<Name("Int")>>), IntLiteral(1)) >>

Bodies == UNION {[1..n -> 1..Len(Pool)] : n \in 0..MaxStmts}

\* func main() { <the statements of body> }; the parser gives a function
\* without a return type the return type Name("Void").
MainFunction(body) ==
  Function("main", <<>>, <<>>, Name("Void"),
           [i \in 1..Len(body) |-> (Pool \o CasePool)[body[i]]])

\* The functions named main of a source text: as a rule the one function
\* main above; for the short bodies also none, one with a parameter, one
\* that returns Int, one with a template parameter, and two of them.
\*   func main(x: Int) { ... }   func main(): Int { ... }   func main<T>() { ... }
Mains(body) ==
  {<<MainFunction(body)>>}
    \cup (IF Len(body) > 1 THEN {}
          ELSE LET block == MainFunction(body).block
               IN {<<>>,
                   <<Function("main", <<>>, <<Argument("x", Name("Int"))>>,
                              Name("Void"), block)>>,
                   <<Function("main", <<>>, <<>>, Name("Int"), block)>>,
                   <<Function("main", <<"T">>, <<>>, Name("Void"), block)>>,
                   <<MainFunction(body), MainFunction(body)>>})

\* Program(functions, structures): current_id = 0, main_function_id = 0
Program(functions, structures) ==
  [functions |-> functions, structures |-> structures,
   function_instantiations |-> <<>>, types |-> <<>>,
   current_id |-> 0, main_function_id |-> 0]

-----------------------------------------------------------------------------
(* The objects of the walk and their small operations; an operation that   *)
(* returns a value gives [c |-> the configuration after, v |-> the value]. *)

\* Pass1's fields; the ScopeMap objects live on the C++ stack (scopes).
Pass1(void_type, int_type) ==
  [void_type |-> void_type, int_type |-> int_type,
   structure_instantiations |-> <<>>, function_instantiations |-> <<>>,
   variables |-> Null, type_variables |-> Null, scopes |-> <<>>]

\* The configuration c the operations below take and return: the objects
\* the walk reads and writes.
Cfg ==
  [program |-> program, heap |-> heap, errors |-> errors, pass1 |-> pass1,
   history |-> history]

Event(ev, ptr, a, b) == [ev |-> ev, ptr |-> ptr, a |-> a, b |-> b]
Log(c, ev, ptr, a, b) == [c EXCEPT !.history = Append(@, Event(ev, ptr, a, b))]

\* Errors::add_error (locations left out): the format and its arguments, which
\* are a name, or a printed number and a name (number 0: the format has none)
add_error_number(c, message, number, name) ==
  [c EXCEPT !.errors = Append(@, [message |-> message, name |-> name,
                                  number |-> number])]

add_error(c, message, name) == add_error_number(c, message, 0, name)

\* new VoidType / IntType / StructureInstantiation / FunctionInstantiation:
\* id = 0, no template arguments, members, arguments, return type or block
Node(kind, template) ==
  [kind |-> kind, id |-> 0, template |-> template, template_arguments |-> <<>>,
   members |-> <<>>, return_type |-> Null, block |-> <<>>]

New(c, kind, template) ==
  [c |-> Log([c EXCEPT !.heap = Append(@, Node(kind, template))],
             "new", Len(c.heap) + 1, kind, template),
   v |-> Len(c.heap) + 1]

\* a get_next_id with a post-increment: it returns the counter as it was (a
\* faulty variant)
get_next_id_post_increment(c) ==
  [c |-> [c EXCEPT !.program.current_id = @ + 1], v |-> c.program.current_id]

\* Program::get_next_id
get_next_id(c) ==
  [c |-> [c EXCEPT !.program.current_id = @ + 1], v |-> c.program.current_id + 1]

\* Type::set_id, FunctionInstantiation::set_id
set_id(c, ptr, id) == Log([c EXCEPT !.heap[ptr].id = id], "set_id", ptr, id, 0)

\* Program::add_type
add_type(c, type) ==
  Log([c EXCEPT !.program.types = Append(@, type)], "add", type, 0, 0)

\* an add_function_instantiation that puts the instantiation at the front of
\* the list (a faulty variant)
add_function_instantiation_front(c, function_instantiation) ==
  Log([c EXCEPT !.program.function_instantiations = <<function_instantiation>> \o @],
      "add", function_instantiation, 0, 0)

\* Program::add_function_instantiation
add_function_instantiation(c, function_instantiation) ==
  Log([c EXCEPT !.program.function_instantiations = Append(@, function_instantiation)],
      "add", function_instantiation, 0, 0)

\* ---- ScopeMap: a frame is [parent, map]; map is a sequence of name/value
\* pairs with at most one pair per name.
RECURSIVE MapFind(_, _, _)
MapFind(map, name, i) ==
  IF i > Len(map) THEN 0
  ELSE IF map[i].name = name THEN i ELSE MapFind(map, name, i + 1)

\* a new frame whose parent is the current scope of the variables, whatever
\* parent is asked for (a faulty variant)
ScopeMap_new_dynamic(c, parent) ==
  [c |-> [c EXCEPT !.pass1.scopes = Append(@, [parent |-> c.pass1.variables,
                                               map |-> <<>>])],
   v |-> Len(c.pass1.scopes) + 1]

\* ScopeMap(parent): a new frame on the stack
ScopeMap_new(c, parent) ==
  [c |-> [c EXCEPT !.pass1.scopes = Append(@, [parent |-> parent, map |-> <<>>])],
   v |-> Len(c.pass1.scopes) + 1]

\* the frame goes out of scope (it is the newest one alive)
ScopeMap_delete(c, scope) ==
  [c EXCEPT !.pass1.scopes = SubSeq(@, 1, scope - 1)]

\* ScopeMap::insert: nothing for a null value; emplace keeps an existing entry
ScopeMap_insert(c, scope, name, value) ==
  IF value = Null THEN c
  ELSE IF MapFind(c.pass1.scopes[scope].map, name, 1) # 0 THEN c
  ELSE [c EXCEPT !.pass1.scopes[scope].map = Append(@, [name |-> name, value |-> value])]

\* ScopeMap::look_up
RECURSIVE ScopeMap_look_up(_, _, _)
ScopeMap_look_up(c, scope, name) ==
  LET map == c.pass1.scopes[scope].map
      i == MapFind(map, name, 1)
  IN IF i # 0 THEN map[i].value
     ELSE IF c.pass1.scopes[scope].parent # Null
          THEN ScopeMap_look_up(c, c.pass1.scopes[scope].parent, name)
          ELSE Null

\* ---- Instantiations<T, TI>: a sequence of [key, value]; a key is
\* <<template, template arguments>>.
Key(t, arguments) == <<t, arguments>>

RECURSIVE KeyFind(_, _, _)
KeyFind(instantiations, key, i) ==
  IF i > Len(instantiations) THEN 0
  ELSE IF instantiations[i].key = key THEN i
  ELSE KeyFind(instantiations, key, i + 1)

\* a look_up that never finds the key (a faulty variant)
Instantiations_look_up_miss(instantiations, key) == Null

\* Instantiations::look_up
Instantiations_look_up(instantiations, key) ==
  LET i == KeyFind(instantiations, key, 1)
  IN IF i # 0 THEN instantiations[i].value ELSE Null

\* an insert that stores nothing (a faulty variant)
Instantiations_insert_lost(instantiations, key, t) == instantiations

\* Instantiations::insert (std::map::emplace keeps an existing entry)
Instantiations_insert(instantiations, key, t) ==
  IF KeyFind(instantiations, key, 1) # 0 THEN instantiations
  ELSE Append(instantiations, [key |-> key, value |-> t])

\* Pass1::get_type(const Expression*)
get_type_of(expression) == IF IsNull(expression) THEN Null ELSE expression.type

\* a get_builtin_type that makes a new node at every call and keeps the
\* first one in the field (a faulty variant)
get_builtin_type_fresh(c, kind, field) ==
  LET t == New(c, kind, 0)
      n == get_next_id(t.c)
      c1 == set_id(n.c, t.v, n.v)
      c2 == add_type(c1, t.v)
  IN [c |-> IF c.pass1[field] = Null THEN [c2 EXCEPT !.pass1[field] = t.v] ELSE c2,
      v |-> t.v]

\* Pass1::get_builtin_type<T>, for the field void_type or int_type
get_builtin_type(c, kind, field) ==
  IF c.pass1[field] = Null
  THEN LET t == New(c, kind, 0)
           n == get_next_id(t.c)
           c1 == set_id(n.c, t.v, n.v)
           c2 == add_type(c1, t.v)
       IN [c |-> [c2 EXCEPT !.pass1[field] = t.v], v |-> t.v]
  ELSE [c |-> c, v |-> c.pass1[field]]

\* Pass1::get_void_type, Pass1::get_int_type
get_void_type(c) == get_builtin_type(c, "VoidType", "void_type")
get_int_type(c) == get_builtin_type(c, "IntType", "int_type")

\* Pass1::get_name: "" is the empty StringView
get_name(c, expression) ==
  IF IsNull(expression) THEN [c |-> c, v |-> ""]
  ELSE IF expression.k # "Name"
  THEN [c |-> add_error(c, "invalid expression, expected a name", ""), v |-> ""]
  ELSE [c |-> c, v |-> expression.name]

\* Pass1::get_member_type
RECURSIVE MemberFind(_, _, _)
MemberFind(members, member_name, i) ==
  IF i > Len(members) THEN 0
  ELSE IF members[i].name = member_name THEN i
  ELSE MemberFind(members, member_name, i + 1)

get_member_type(c, struct_type, member_name) ==
  IF struct_type = Null THEN [c |-> c, v |-> Null]
  ELSE IF c.heap[struct_type].kind # "StructureInstantiation"
  THEN [c |-> add_error(c, "invalid type %, expected a struct type", ""), v |-> Null]
  ELSE LET i == MemberFind(c.heap[struct_type].members, member_name, 1)
       IN IF i # 0 THEN [c |-> c, v |-> c.heap[struct_type].members[i].type]
          ELSE [c |-> add_error(c, "struct % does not have a field named \"%\"",
                                member_name),
                v |-> Null]

\* a check_type that neither reports nor flags a mismatch, and one that
\* reports it without setting the flag (faulty variants)
check_type_silent(c, expression, expected_type, error) == [c |-> c, error |-> error]

check_type_unflagged(c, expression, expected_type, error) ==
  IF ~IsNull(expression) /\ expected_type # Null /\ expression.type # expected_type
  THEN [c |-> add_error(c, "invalid type %, expected type %", ""), error |-> error]
  ELSE [c |-> c, error |-> error]

\* Pass1::check_type: [c, error]
check_type(c, expression, expected_type, error) ==
  IF ~IsNull(expression) /\ expected_type # Null /\ expression.type # expected_type
  THEN [c |-> add_error(c, "invalid type %, expected type %", ""), error |-> TRUE]
  ELSE [c |-> c, error |-> error]

\* Pass1::check_name: [c, error]
check_name(c, expression, error) ==
  IF ~IsNull(expression) /\ expression.k # "Name"
  THEN [c |-> add_error(c, "invalid expression, expected a name", ""), error |-> TRUE]
  ELSE [c |-> c, error |-> error]

-----------------------------------------------------------------------------
(* The agenda machine.                                                     *)

Top(s) == s[Len(s)]
TopN(s, n) == SubSeq(s, Len(s) - n + 1, Len(s))
PopN(s, n) == SubSeq(s, 1, Len(s) - n)
Pop(s) == PopN(s, 1)

\* the call to make now, and the calls after it
I == Head(agenda)
K == Tail(agenda)
At(op) == phase = "analysing" /\ agenda # <<>> /\ Head(agenda).op = op

Step(c, ag, vs) ==
  /\ program' = c.program
  /\ heap' = c.heap
  /\ errors' = c.errors
  /\ pass1' = c.pass1
  /\ history' = c.history
  /\ agenda' = ag
  /\ vals' = vs
  /\ UNCHANGED <<input, phase, output, parser>>

\* the calls of the model, by the member function each one stands for
DoGetFunction(name, n, return_type) ==
  [op |-> "get_function", name |-> name, n |-> n, return_type |-> return_type]
DoInstantiateFunction(function, template_arguments) ==
  [op |-> "instantiate_function", function |-> function,
   template_arguments |-> template_arguments]
DoInstantiateStructure(structure, template_arguments) ==
  [op |-> "instantiate_structure", structure |-> structure,
   template_arguments |-> template_arguments]
DoGetType(name, n) == [op |-> "get_type", name |-> name, n |-> n]
DoHandleType(expression) == [op |-> "handle_type", expression |-> expression]
DoHandleExpression(expression, expected_type) ==
  [op |-> "handle_expression", expression |-> expression,
   expected_type |-> expected_type]
DoHandleBlock(block) == [op |-> "handle_block", block |-> block]
DoHandleStatement(statement) == [op |-> "handle_statement", statement |-> statement]
DoMatch(function_argument, argument) ==
  [op |-> "Unification_match", function_argument |-> function_argument,
   argument |-> argument]

-----------------------------------------------------------------------------
(* Pass1::run and overload resolution (src/passes.cpp:214-300, 429-457,    *)
(* 683-693).                                                               *)

\* a look-up of main without an expected return type (a faulty variant)
MainLookup_any_type(void_type) == DoGetFunction("main", 0, Null)

\* the call of get_function in Pass1::run
MainLookup(void_type) == DoGetFunction("main", 0, void_type)

\* Pass1::run, up to the call of get_function
run ==
  /\ phase = "parsed"
  /\ LET void == get_void_type(Cfg)
     IN /\ program' = void.c.program
        /\ heap' = void.c.heap
        /\ errors' = void.c.errors
        /\ pass1' = void.c.pass1
        /\ history' = void.c.history
        /\ agenda' = <<MainLookup(void.v), [op |-> "run_main"]>>
        /\ vals' = vals
        /\ phase' = "analysing"
  /\ UNCHANGED <<input, output, parser>>

\* Pass1::run, after get_function has returned
run_main ==
  /\ At("run_main")
  /\ LET main_function == Top(vals)
     IN /\ program' = IF main_function = Null THEN program
                      ELSE [program EXCEPT !.main_function_id = heap[main_function].id]
        /\ agenda' = K
        /\ vals' = PopN(vals, 2)
        /\ phase' = "analysed"
  /\ UNCHANGED <<input, heap, errors, pass1, history, output, parser>>

FunctionsNamed_first(name) ==
  LET named == SelectSeq([i \in 1..Len(program.functions) |-> i],
                         LAMBDA i : program.functions[i].name = name)
  IN IF named = <<>> THEN <<>> ELSE <<named[1]>>

\* the functions of the program named name, in the order of the program
FunctionsNamed(name) ==
  SelectSeq([i \in 1..Len(program.functions) |-> i],
            LAMBDA i : program.functions[i].name = name)

\* Pass1::get_function, up to the loop over the functions: the n arguments
\* are the newest values; they stay on vals as one list, below the locals
\* match_function, match_template_arguments and match_count
get_function ==
  /\ At("get_function")
  /\ LET arguments == TopN(vals, I.n)
         vs == Append(PopN(vals, I.n), arguments)
         candidates == FunctionsNamed(I.name)
     IN IF I.name = "" THEN Step(Cfg, K, Append(vs, Null))
        ELSE Step(Log(Cfg, "lookup", Null, I.name, <<I.n, Len(errors)>>),
                  [j \in 1..Len(candidates) |->
                     [op |-> "Unification_run", function |-> candidates[j]]]
                    \o <<[op |-> "get_function_select", name |-> I.name]>> \o K,
                  Append(vs, [arguments |-> arguments, return_type |-> I.return_type,
                              match_function |-> Null,
                              match_template_arguments |-> <<>>, match_count |-> 0]))

\* Unification::run for one function of that name, up to its matches; the
\* unification keeps its template_arguments, and ok = FALSE once a match has
\* returned false (the matches after it are then not made)
Unification_run ==
  /\ At("Unification_run")
  /\ LET found == Top(vals)
         function == program.functions[I.function]
         n == Len(function.arguments)
         matches == [j \in 1..n |-> DoMatch(function.arguments[j].type,
                                           get_type_of(found.arguments[j]))]
                    \o (IF found.return_type # Null
                        THEN <<DoMatch(function.return_type, found.return_type)>>
                        ELSE <<>>)
     IN IF n # Len(found.arguments)
        THEN Step(Log(Cfg, "unify", I.function, <<>>, FALSE), K, vals)
        ELSE Step(Cfg, matches \o <<[op |-> "Unification_finish"]>> \o K,
                  Append(vals, [function |-> I.function,
                                template_arguments |->
                                  [i \in 1..Len(function.template_arguments) |-> Null],
                                ok |-> TRUE]))

\* Unification::is_variable
Unification_is_variable(function, name) ==
  \E i \in 1..Len(function.template_arguments) : function.template_arguments[i] = name

\* a set_variable that takes any type for a variable that is set (a faulty
\* variant)
Unification_set_variable_any(function, template_arguments, name, type, i) ==
  IF \E j \in DOMAIN template_arguments : name = function.template_arguments[j]
  THEN LET j == CHOOSE j \in DOMAIN template_arguments :
                  name = function.template_arguments[j]
       IN [template_arguments |->
             IF template_arguments[j] # Null THEN template_arguments
             ELSE [template_arguments EXCEPT ![j] = type],
           v |-> TRUE]
  ELSE [template_arguments |-> template_arguments, v |-> FALSE]

\* Unification::set_variable: [template_arguments, v]
RECURSIVE Unification_set_variable(_, _, _, _, _)
Unification_set_variable(function, template_arguments, name, type, i) ==
  IF i > Len(template_arguments) THEN [template_arguments |-> template_arguments, v |-> FALSE]
  ELSE IF name = function.template_arguments[i]
  THEN IF template_arguments[i] # Null
       THEN [template_arguments |-> template_arguments, v |-> template_arguments[i] = type]
       ELSE [template_arguments |-> [template_arguments EXCEPT ![i] = type], v |-> TRUE]
  ELSE Unification_set_variable(function, template_arguments, name, type, i + 1)

\* Unification::match
Unification_match ==
  /\ At("Unification_match")
  /\ LET u == Top(vals)
         function == program.functions[u.function]
         fail(c) == Step(c, K, Append(Pop(vals), [u EXCEPT !.ok = FALSE]))
     IN IF ~u.ok THEN Step(Cfg, K, vals)
        ELSE IF I.argument = Null THEN fail(Cfg)
        ELSE IF I.function_argument.k = "Name"
        THEN IF Unification_is_variable(function, I.function_argument.name)
             THEN LET r == Unification_set_variable(function, u.template_arguments,
                             I.function_argument.name, I.argument, 1)
                  IN Step(Cfg, K,
                          Append(Pop(vals),
                                 [u EXCEPT !.template_arguments = r.template_arguments,
                                           !.ok = r.v]))
             ELSE Step(Cfg,
                       <<DoGetType(I.function_argument.name, 0),
                         [op |-> "Unification_match_type", argument |-> I.argument]>>
                         \o K,
                       vals)
        ELSE IF I.function_argument.k = "Call"
        THEN LET name == get_name(Cfg, I.function_argument.expression)
                 s == heap[I.argument]
             IN IF s.kind = "StructureInstantiation"
                THEN IF name.v # program.structures[s.template].name THEN fail(name.c)
                     ELSE IF Len(I.function_argument.arguments) # Len(s.template_arguments)
                     THEN fail(name.c)
                     ELSE Step(name.c,
                               [i \in 1..Len(s.template_arguments) |->
                                  DoMatch(I.function_argument.arguments[i],
                                          s.template_arguments[i])] \o K,
                               vals)
                ELSE fail(name.c)
        ELSE fail(Cfg)

\* Unification::match of a Name that is no template argument, after
\* pass1->get_type has returned
Unification_match_type ==
  /\ At("Unification_match_type")
  /\ LET type == Top(vals)
         u == Top(Pop(vals))
     IN Step(Cfg, K,
             Append(PopN(vals, 2), [u EXCEPT !.ok = type # Null /\ type = I.argument]))

\* Unification::run, after the matches, and the body of the loop of
\* get_function
Unification_finish ==
  /\ At("Unification_finish")
  /\ LET u == Top(vals)
         found == Top(Pop(vals))
         ok == u.ok /\ \A i \in 1..Len(u.template_arguments) :
                         u.template_arguments[i] # Null
     IN Step(Log(Cfg, "unify", u.function, u.template_arguments, ok), K,
             IF ok
             THEN Append(PopN(vals, 2),
                         [found EXCEPT !.match_function = u.function,
                                       !.match_template_arguments = u.template_arguments,
                                       !.match_count = @ + 1])
             ELSE Pop(vals))

\* Pass1::get_function, after the loop
get_function_select ==
  /\ At("get_function_select")
  /\ LET found == Top(vals)
         selected(c) == Log(c, "select", found.match_function,
                            <<I.name, found.match_count, Len(errors),
                              Len(c.errors)>>,
                            found.match_template_arguments)
     IN IF found.match_count = 1
        THEN Step(selected(Cfg),
                  <<DoInstantiateFunction(found.match_function,
                                          found.match_template_arguments)>> \o K,
                  Pop(vals))
        ELSE IF found.match_count = 0
        THEN Step(selected(add_error(Cfg, "no matching function \"%\" found",
                                     I.name)),
                  K, Append(Pop(vals), Null))
        ELSE Step(selected(add_error_number(Cfg, "% matching functions \"%\" found",
                                            found.match_count, I.name)),
                  K, Append(Pop(vals), Null))

-----------------------------------------------------------------------------
(* Instantiation and types (src/passes.cpp:312-428, 486-505).              *)

\* the loop that copies the template arguments into the instantiation and
\* binds them to the names the template gives them
RECURSIVE add_template_arguments(_, _, _, _, _, _)
add_template_arguments(c, names, instantiation, type_variables, arguments, i) ==
  IF i > Len(arguments) THEN c
  ELSE add_template_arguments(
         ScopeMap_insert([c EXCEPT !.heap[instantiation].template_arguments =
                                     Append(@, arguments[i])],
                         type_variables, names[i], arguments[i]),
         names, instantiation, type_variables, arguments, i + 1)

\* the analysis is cut off: it would create an instantiation beyond MaxId
Diverge ==
  /\ phase' = "diverged"
  /\ agenda' = <<>>
  /\ UNCHANGED <<input, program, heap, errors, pass1, history, vals, output, parser>>

\* Pass1::instantiate_structure, up to the loop over the members
instantiate_structure ==
  /\ At("instantiate_structure")
  /\ LET structure == program.structures[I.structure]
         key == Key(I.structure, I.template_arguments)
         found == Instantiations_look_up(pass1.structure_instantiations, key)
         new_structure == New(Cfg, "StructureInstantiation", I.structure)
         id == get_next_id(new_structure.c)
         c1 == set_id(id.c, new_structure.v, id.v)
         \* template arguments
         type_variables == ScopeMap_new(c1, Null)
         c2 == add_template_arguments(type_variables.c, structure.template_arguments,
                 new_structure.v, type_variables.v, I.template_arguments, 1)
         previous_type_variables == c2.pass1.type_variables
         c3 == [c2 EXCEPT !.pass1.type_variables = type_variables.v]
         \* members
         c4 == [c3 EXCEPT !.pass1.structure_instantiations =
                            Instantiations_insert(@, key, new_structure.v)]
         members == [j \in 1..2 * Len(structure.members) |->
                       IF j % 2 = 1
                       THEN DoHandleType(structure.members[(j + 1) \div 2].type)
                       ELSE [op |-> "instantiate_structure_member",
                             new_structure |-> new_structure.v,
                             name |-> structure.members[j \div 2].name]]
     IN IF Len(I.template_arguments) # Len(structure.template_arguments)
        THEN Step(Cfg, K, Append(vals, Null))
        ELSE IF found # Null
        THEN Step(Log(Cfg, "demand", found, "structure", key), K, Append(vals, found))
        ELSE IF program.current_id >= MaxId THEN Diverge
        ELSE Step(c4,
                  members
                    \o <<[op |-> "instantiate_structure_finish",
                          new_structure |-> new_structure.v, key |-> key,
                          type_variables |-> type_variables.v,
                          previous_type_variables |-> previous_type_variables,
                          entered |-> <<pass1.variables, pass1.type_variables>>]>>
                    \o K,
                  vals)

\* the body of the loop over the members, after handle_type has returned
instantiate_structure_member ==
  /\ At("instantiate_structure_member")
  /\ Step([Cfg EXCEPT !.heap[I.new_structure].members =
                        Append(@, Argument(I.name, Top(vals)))],
          K, Pop(vals))

\* Pass1::instantiate_structure, after the loop over the members
instantiate_structure_finish ==
  /\ At("instantiate_structure_finish")
  /\ LET restored == [Cfg EXCEPT !.pass1.type_variables = I.previous_type_variables]
         c1 == Log(restored, "done", I.new_structure, I.entered,
                   <<restored.pass1.variables, restored.pass1.type_variables>>)
         c2 == add_type(c1, I.new_structure)
     IN Step(Log(ScopeMap_delete(c2, I.type_variables),
                 "demand", I.new_structure, "structure", I.key),
             K, Append(vals, I.new_structure))

\* Pass1::instantiate_function, up to the loop over the arguments
instantiate_function ==
  /\ At("instantiate_function")
  /\ LET function == program.functions[I.function]
         key == Key(I.function, I.template_arguments)
         found == Instantiations_look_up(pass1.function_instantiations, key)
         new_function == New(Cfg, "FunctionInstantiation", I.function)
         id == get_next_id(new_function.c)
         c1 == set_id(id.c, new_function.v, id.v)
         \* template arguments
         type_variables == ScopeMap_new(c1, Null)
         c2 == add_template_arguments(type_variables.c, function.template_arguments,
                 new_function.v, type_variables.v, I.template_arguments, 1)
         previous_type_variables == c2.pass1.type_variables
         c3 == [c2 EXCEPT !.pass1.type_variables = type_variables.v]
         \* arguments
         variables == ScopeMap_new(c3, Null)
         arguments == [j \in 1..2 * Len(function.arguments) |->
                         IF j % 2 = 1
                         THEN DoHandleType(function.arguments[(j + 1) \div 2].type)
                         ELSE [op |-> "instantiate_function_argument",
                               new_function |-> new_function.v,
                               name |-> function.arguments[j \div 2].name,
                               variables |-> variables.v]]
     IN IF Len(I.template_arguments) # Len(function.template_arguments)
        THEN Step(Cfg, K, Append(vals, Null))
        ELSE IF found # Null
        THEN Step(Log(Cfg, "demand", found, "function", key), K, Append(vals, found))
        ELSE IF program.current_id >= MaxId THEN Diverge
        ELSE Step(variables.c,
                  arguments
                    \o <<[op |-> "instantiate_function_variables",
                          variables |-> variables.v],
                         DoHandleType(function.return_type),
                         [op |-> "instantiate_function_block",
                          new_function |-> new_function.v, key |-> key],
                         [op |-> "instantiate_function_finish",
                          new_function |-> new_function.v, key |-> key,
                          variables |-> variables.v,
                          type_variables |-> type_variables.v,
                          previous_type_variables |-> previous_type_variables,
                          entered |-> <<pass1.variables, pass1.type_variables>>]>>
                    \o K,
                  vals)

\* the body of the loop over the arguments, after handle_type has returned
\* (the arguments of a FunctionInstantiation are kept in the field members)
instantiate_function_argument ==
  /\ At("instantiate_function_argument")
  /\ LET argument_type == Top(vals)
         c1 == [Cfg EXCEPT !.heap[I.new_function].members =
                             Append(@, Argument(I.name, argument_type))]
     IN Step(ScopeMap_insert(c1, I.variables, I.name, argument_type), K, Pop(vals))

\* instantiate_function that does not keep the scope it was called in (a
\* faulty variant)
instantiate_function_variables_forgets ==
  /\ At("instantiate_function_variables")
  /\ Step([Cfg EXCEPT !.pass1.variables = I.variables], K, Append(vals, Null))

\* Pass1::instantiate_function, after the loop: previous_variables is kept
\* on vals and this->variables is set
instantiate_function_variables ==
  /\ At("instantiate_function_variables")
  /\ Step([Cfg EXCEPT !.pass1.variables = I.variables], K,
          Append(vals, pass1.variables))

\* an instantiate_function that walks the block without writing the memo
\* first (a faulty variant)
instantiate_function_block_unlisted ==
  /\ At("instantiate_function_block")
  /\ Step(Log([Cfg EXCEPT !.heap[I.new_function].return_type = Top(vals)],
              "walk", I.new_function, 0, 0),
          <<DoHandleBlock(program.functions[heap[I.new_function].template].block)>>
            \o K,
          Pop(vals))

\* Pass1::instantiate_function, after handle_type of the return type has
\* returned: the memo is written, then the block is walked
instantiate_function_block ==
  /\ At("instantiate_function_block")
  /\ LET c1 == [Cfg EXCEPT !.heap[I.new_function].return_type = Top(vals)]
         c2 == [c1 EXCEPT !.pass1.function_instantiations =
                            Instantiations_insert(@, I.key, I.new_function)]
     IN Step(Log(c2, "walk", I.new_function, 0, 0),
             <<DoHandleBlock(program.functions[heap[I.new_function].template].block)>>
               \o K,
             Pop(vals))

\* Pass1::instantiate_function, after handle_block has returned
instantiate_function_finish ==
  /\ At("instantiate_function_finish")
  /\ LET block == Top(vals)
         previous_variables == Top(Pop(vals))
         c1 == [Cfg EXCEPT !.heap[I.new_function].block = block,
                           !.pass1.variables = previous_variables,
                           !.pass1.type_variables = I.previous_type_variables]
         c2 == add_function_instantiation(
                 Log(c1, "done", I.new_function, I.entered,
                     <<c1.pass1.variables, c1.pass1.type_variables>>),
                 I.new_function)
     IN Step(Log(ScopeMap_delete(c2, I.type_variables),
                 "demand", I.new_function, "function", I.key),
             K, Append(PopN(vals, 2), I.new_function))

\* Pass1::get_type(name, arguments): the n arguments are the newest values
get_type ==
  /\ At("get_type")
  /\ LET arguments == TopN(vals, I.n)
         vs == PopN(vals, I.n)
         matches == {i \in 1..Len(program.structures) :
                       program.structures[i].name = I.name}
         match_count == Cardinality(matches)
         match_structure == CHOOSE i \in matches : TRUE
         void == get_void_type(Cfg)
         int == get_int_type(Cfg)
     IN IF I.name = "" THEN Step(Cfg, K, Append(vs, Null))
        ELSE IF \E i \in 1..Len(arguments) : arguments[i] = Null
        THEN Step(Cfg, K, Append(vs, Null))
        ELSE IF I.name = "Void" /\ arguments = <<>>
        THEN Step(void.c, K, Append(vs, void.v))
        ELSE IF I.name = "Int" /\ arguments = <<>>
        THEN Step(int.c, K, Append(vs, int.v))
        ELSE IF match_count = 0
        THEN Step(add_error(Cfg, "struct \"%\" not found", I.name), K, Append(vs, Null))
        ELSE IF match_count > 1
        THEN Step(add_error(Cfg, "% structs named \"%\" found", I.name), K,
                  Append(vs, Null))
        ELSE IF Len(program.structures[match_structure].template_arguments)
                  # Len(arguments)
        THEN Step(add_error(Cfg,
                    "invalid number of template arguments for struct \"%\", expected %",
                    I.name),
                  K, Append(vs, Null))
        ELSE Step(Cfg, <<DoInstantiateStructure(match_structure, arguments)>> \o K, vs)

\* a handle_type that takes a Name for a named type if there is one of this
\* name, and only then for a type variable (a faulty variant)
handle_type_named_first ==
  /\ At("handle_type")
  /\ ~IsNull(I.expression) /\ I.expression.k = "Name"
  /\ LET type == ScopeMap_look_up(Cfg, pass1.type_variables, I.expression.name)
         named == \/ I.expression.name \in {"Int", "Void"}
                  \/ \E i \in DOMAIN program.structures :
                       program.structures[i].name = I.expression.name
     IN IF type # Null /\ ~named
        THEN Step(Log(Cfg, "type", type, I.expression.name, pass1.type_variables),
                  K, Append(vals, type))
        ELSE Step(Log(Cfg, "type", Null, I.expression.name, pass1.type_variables),
                  <<DoGetType(I.expression.name, 0)>> \o K, vals)

\* Pass1::handle_type
handle_type ==
  /\ At("handle_type")
  /\ IF IsNull(I.expression) THEN Step(Cfg, K, Append(vals, Null))
     ELSE IF I.expression.k = "Name"
     THEN LET type == ScopeMap_look_up(Cfg, pass1.type_variables, I.expression.name)
          IN IF type # Null
             THEN Step(Log(Cfg, "type", type, I.expression.name, pass1.type_variables),
                       K, Append(vals, type))
             ELSE Step(Log(Cfg, "type", Null, I.expression.name, pass1.type_variables),
                       <<DoGetType(I.expression.name, 0)>> \o K, vals)
     ELSE IF I.expression.k = "Call"
     THEN LET name == get_name(Cfg, I.expression.expression)
              n == Len(I.expression.arguments)
          IN Step(name.c,
                  [i \in 1..n |-> DoHandleType(I.expression.arguments[i])]
                    \o <<DoGetType(name.v, n)>> \o K,
                  vals)
     ELSE Step(Cfg, K, Append(vals, Null))

-----------------------------------------------------------------------------
(* Expressions, blocks and statements (src/passes.cpp:526-677).  The       *)
(* result of handle_expression and handle_statement is a node of the IR,   *)
(* or NullNode for a null Reference.                                       *)

\* Pass1::handle_expression and handle_expression_, up to the first call
\* each case makes
\* the arguments of a call with the receiver put after them (a faulty
\* variant)
CallArguments_receiver_last(e) ==
  IF e.expression.k = "MemberAccess"
  THEN e.arguments \o <<e.expression.expression>>
  ELSE e.arguments

\* the Call case: the expressions handled as the arguments of the call, in
\* order; with the uniform function call syntax the receiver is the first
CallArguments(e) ==
  IF e.expression.k = "MemberAccess"
  THEN <<e.expression.expression>> \o e.arguments
  ELSE e.arguments

\* the Call case: the name looked up, [c, v]
CallName(c, e) ==
  IF e.expression.k = "MemberAccess"
  THEN [c |-> c, v |-> e.expression.member_name]
  ELSE get_name(c, e.expression)

\* the Call case, up to the first call it makes: [c, agenda], the calls to
\* make for the arguments, the look-up and the rest of the case
HandleCall(c, e, expected_type) ==
  LET name == CallName(c, e)
      arguments == CallArguments(e)
  IN [c |-> name.c,
      agenda |-> [i \in 1..Len(arguments) |-> DoHandleExpression(arguments[i], Null)]
                   \o <<DoGetFunction(name.v, Len(arguments), expected_type),
                        [op |-> "handle_call"]>>]

handle_expression ==
  /\ At("handle_expression")
  /\ LET e == I.expression
     IN IF IsNull(e) THEN Step(Cfg, K, Append(vals, NullNode))
        ELSE IF e.k = "IntLiteral"
        THEN LET int == get_int_type(Cfg)
             IN Step(int.c, K, Append(vals, with_type(IntLiteral(e.value), int.v)))
        ELSE IF e.k = "Name"
        THEN LET type == ScopeMap_look_up(Cfg, pass1.variables, e.name)
             IN IF type = Null
                THEN Step(Log(add_error(Cfg, "undefined variable \"%\"", e.name),
                              "name", Null, e.name, 0),
                          K, Append(vals, NullNode))
                ELSE Step(Log(Cfg, "name", type, e.name, 0), K,
                          Append(vals, with_type(Name(e.name), type)))
        ELSE IF e.k = "BinaryExpression"
        THEN Step(Cfg,
                  <<DoHandleExpression(e.left, Null), DoHandleExpression(e.right, Null),
                    [op |-> "handle_binary_expression", operation |-> e.operation]>>
                    \o K,
                  vals)
        ELSE IF e.k = "Assignment"
        THEN Step(Cfg,
                  <<DoHandleExpression(e.left, Null), DoHandleExpression(e.right, Null),
                    [op |-> "handle_assignment"]>> \o K,
                  vals)
        ELSE IF e.k = "Call"
        THEN LET call == HandleCall(Cfg, e, I.expected_type)
             IN Step(call.c, call.agenda \o K, vals)
        ELSE IF e.k = "MemberAccess"
        THEN Step(Cfg,
                  <<DoHandleExpression(e.expression, Null),
                    [op |-> "handle_member_access", member_name |-> e.member_name]>>
                    \o K,
                  vals)
        ELSE Step(Cfg, K, Append(vals, NullNode))

\* the BinaryExpression case, after both operands have been handled
handle_binary_expression ==
  /\ At("handle_binary_expression")
  /\ LET left == Top(Pop(vals))
         right == Top(vals)
         both == ~IsNull(left) /\ ~IsNull(right)
         int == IF both THEN get_int_type(Cfg) ELSE [c |-> Cfg, v |-> Null]
         invalid == both /\ ~(left.type = int.v /\ right.type = int.v)
         type == get_type_of(left)
     IN IF invalid
        THEN Step(add_error(int.c, "invalid binary expression", ""), K,
                  Append(PopN(vals, 2), NullNode))
        ELSE IF ~both THEN Step(int.c, K, Append(PopN(vals, 2), NullNode))
        ELSE Step(int.c, K,
                  Append(PopN(vals, 2),
                         with_type(BinaryExpression(I.operation, left, right), type)))

\* the Assignment case, after both sides have been handled
handle_assignment ==
  /\ At("handle_assignment")
  /\ LET left == Top(Pop(vals))
         right == Top(vals)
         type == get_type_of(left)
         error == IsNull(left) \/ IsNull(right)
         n == check_name(Cfg, left, error)
         t == check_type(n.c, right, type, n.error)
     IN IF t.error THEN Step(t.c, K, Append(PopN(vals, 2), NullNode))
        ELSE Step(t.c, K,
                  Append(PopN(vals, 2), with_type(Assignment(left, right), type)))

\* the Call case, after get_function has returned: below its result is the
\* list of the typed arguments
handle_call ==
  /\ At("handle_call")
  /\ LET function == Top(vals)
         arguments == Top(Pop(vals))
     IN IF function = Null
        THEN Step(Log(Cfg, "call", Null, <<>>, <<>>), K,
                  Append(PopN(vals, 2), NullNode))
        ELSE Step(Log(Cfg, "call", function, heap[function].id, arguments), K,
                  Append(PopN(vals, 2),
                         with_type(CallId(heap[function].id, arguments),
                                   heap[function].return_type)))

\* the MemberAccess case, after the receiver has been handled
handle_member_access ==
  /\ At("handle_member_access")
  /\ LET left == Top(vals)
         type == get_member_type(Cfg, get_type_of(left), I.member_name)
     IN IF IsNull(left) \/ type.v = Null THEN Step(type.c, K, Append(Pop(vals), NullNode))
        ELSE Step(type.c, K,
                  Append(Pop(vals), with_type(MemberAccess(left, I.member_name), type.v)))

\* Pass1::handle_block, up to the loop over the statements
handle_block ==
  /\ At("handle_block")
  /\ LET new_scope == ScopeMap_new(Cfg, pass1.variables)
         n == Len(I.block)
     IN Step([new_scope.c EXCEPT !.pass1.variables = new_scope.v],
             [i \in 1..n |-> DoHandleStatement(I.block[i])]
               \o <<[op |-> "handle_block_finish", n |-> n, new_scope |-> new_scope.v,
                     entered |-> <<pass1.variables, pass1.type_variables>>]>>
               \o K,
             vals)

\* Pass1::handle_block, after the loop: the statements that are not null
\* are kept, in order
handle_block_finish ==
  /\ At("handle_block_finish")
  /\ LET statements == SelectSeq(TopN(vals, I.n), LAMBDA s : ~IsNull(s))
         c1 == [Cfg EXCEPT !.pass1.variables = pass1.scopes[pass1.variables].parent]
     IN Step(Log(ScopeMap_delete(c1, I.new_scope), "block", I.new_scope, I.entered,
                 <<c1.pass1.variables, c1.pass1.type_variables>>),
             K, Append(PopN(vals, I.n), statements))

\* Pass1::handle_statement, up to the first call each case makes
handle_statement ==
  /\ At("handle_statement")
  /\ LET s == I.statement
         began == Log(Cfg, "statement", Null, s, Len(errors))
         int == get_int_type(began)
         \* the call that ends the case; errors_before (not in the code) is
         \* the number of errors when the statement began
         finish(op) == [op |-> op, errors_before |-> Len(errors)]
     IN IF s.k = "BlockStatement"
        THEN Step(began, <<DoHandleBlock(s.block), finish("handle_block_statement")>> \o K,
                  vals)
        ELSE IF s.k = "EmptyStatement" THEN Step(began, K, Append(vals, EmptyStatement))
        ELSE IF s.k = "LetStatement"
        THEN Step(began,
                  <<DoHandleType(s.type),
                    [op |-> "handle_let_expression", expression |-> s.expression],
                    [op |-> "handle_let_statement", name |-> s.name,
                     errors_before |-> Len(errors)]>>
                    \o K,
                  vals)
        ELSE IF s.k = "IfStatement"
        THEN Step(int.c,
                  <<DoHandleExpression(s.condition, int.v),
                    DoHandleStatement(s.then_statement),
                    DoHandleStatement(s.else_statement),
                    finish("handle_if_statement")>> \o K,
                  vals)
        ELSE IF s.k = "WhileStatement"
        THEN Step(int.c,
                  <<DoHandleExpression(s.condition, int.v),
                    DoHandleStatement(s.statement),
                    finish("handle_while_statement")>> \o K,
                  vals)
        ELSE IF s.k = "ReturnStatement"
        THEN Step(began,
                  <<DoHandleExpression(s.expression, Null),
                    finish("handle_return_statement")>> \o K,
                  vals)
        ELSE IF s.k = "ExpressionStatement"
        THEN Step(began,
                  <<DoHandleExpression(s.expression, Null),
                    finish("handle_expression_statement")>> \o K,
                  vals)
        ELSE Step(began, K, Append(vals, NullNode))

\* the BlockStatement case, after handle_block has returned
handle_block_statement ==
  /\ At("handle_block_statement")
  /\ Step(Cfg, K, Append(Pop(vals), BlockStatement(Top(vals))))

\* the LetStatement case, after handle_type has returned: the type stays on
\* vals and is the expected type of the initializer
handle_let_expression ==
  /\ At("handle_let_expression")
  /\ Step(Cfg, <<DoHandleExpression(I.expression, Top(vals))>> \o K, vals)

\* the LetStatement case, after the initializer has been handled
handle_let_statement ==
  /\ At("handle_let_statement")
  /\ LET declared == Top(Pop(vals))
         expression == Top(vals)
         type == IF declared = Null THEN get_type_of(expression) ELSE declared
         error == type = Null \/ IsNull(expression)
         t == check_type(Cfg, expression, type, error)
         c1 == ScopeMap_insert(t.c, pass1.variables, I.name, type)
         c2 == Log(c1, "let", type,
                   <<declared, get_type_of(expression), Len(t.c.errors) - Len(errors)>>,
                   t.error)
     IN IF t.error THEN Step(c2, K, Append(PopN(vals, 2), NullNode))
        ELSE Step(c2, K,
                  Append(PopN(vals, 2),
                         LetStatement(I.name, TypeExpression(type), expression)))

\* the IfStatement case, after the condition and both arms have been handled
handle_if_statement ==
  /\ At("handle_if_statement")
  /\ LET condition == Top(PopN(vals, 2))
         then_statement == Top(Pop(vals))
         else_statement == Top(vals)
         error == IsNull(condition) \/ IsNull(then_statement) \/ IsNull(else_statement)
         int == get_int_type(Cfg)
         t == check_type(int.c, condition, int.v, error)
         c1 == Log(t.c, "if", get_type_of(condition), Len(t.c.errors) - Len(errors),
                   t.error)
     IN IF t.error THEN Step(c1, K, Append(PopN(vals, 3), NullNode))
        ELSE Step(c1, K,
                  Append(PopN(vals, 3),
                         IfStatement(condition, then_statement, else_statement)))

\* the WhileStatement case, after the condition and the body have been
\* handled
handle_while_statement ==
  /\ At("handle_while_statement")
  /\ LET condition == Top(Pop(vals))
         statement == Top(vals)
         error == IsNull(condition) \/ IsNull(statement)
         int == get_int_type(Cfg)
         t == check_type(int.c, condition, int.v, error)
         c1 == Log(t.c, "while", get_type_of(condition), Len(t.c.errors) - Len(errors),
                   t.error)
     IN IF t.error THEN Step(c1, K, Append(PopN(vals, 2), NullNode))
        ELSE Step(c1, K, Append(PopN(vals, 2), WhileStatement(condition, statement)))

\* the ReturnStatement case, after the expression has been handled
handle_return_statement ==
  /\ At("handle_return_statement")
  /\ Step(Cfg, K, Append(Pop(vals), ReturnStatement(Top(vals))))

\* the ExpressionStatement case, after the expression has been handled
handle_expression_statement ==
  /\ At("handle_expression_statement")
  /\ IF IsNull(Top(vals)) THEN Step(Cfg, K, Append(Pop(vals), NullNode))
     ELSE Step(Cfg, K, Append(Pop(vals), ExpressionStatement(Top(vals))))

-----------------------------------------------------------------------------
(* The C emitter (src/codegen_c.cpp).  The text is a sequence of tokens:   *)
(* the pieces of the format strings, and for every % the thing printed     *)
(* there: a type name tN, a function name fN, a number or a source name.   *)
(* Indentation is not modelled.                                            *)

Txt(s) == [tok |-> "text", s |-> s, n |-> 0]
Ln == [tok |-> "ln", s |-> "", n |-> 0]
TypeName(id) == [tok |-> "t", s |-> "", n |-> id]
FunctionName(id) == [tok |-> "f", s |-> "", n |-> id]
SourceName(name) == [tok |-> "name", s |-> name, n |-> 0]

\* PrintCommaSeparated (src/ast.hpp): the printed items with ", " between
RECURSIVE comma_separated(_)
comma_separated(items) ==
  IF items = <<>> THEN <<>>
  ELSE IF Len(items) = 1 THEN items[1]
  ELSE items[1] \o <<Txt(", ")>> \o comma_separated(Tail(items))

\* PrintType
PrintType(type) == <<TypeName(heap[type].id)>>

\* PrintExpression::print_operation
print_operation(operation) ==
  CASE operation = "ADD" -> "+"
    [] operation = "SUB" -> "-"
    [] operation = "MUL" -> "*"
    [] operation = "DIV" -> "/"
    [] operation = "REM" -> "%"
    [] operation = "EQ" -> "=="
    [] operation = "NE" -> "!="
    [] operation = "LT" -> "<"
    [] operation = "LE" -> "<="
    [] operation = "GT" -> ">"
    [] operation = "GE" -> ">="
    [] OTHER -> ""

\* PrintExpression::print
RECURSIVE PrintExpression(_)
PrintExpression(expression) ==
  IF expression.k = "IntLiteral" THEN <<[tok |-> "number", s |-> "", n |-> expression.value]>>
  ELSE IF expression.k = "Name" THEN <<SourceName(expression.name)>>
  ELSE IF expression.k = "BinaryExpression"
  THEN <<Txt("(")>> \o PrintExpression(expression.left)
         \o <<Txt(" "), Txt(print_operation(expression.operation)), Txt(" ")>>
         \o PrintExpression(expression.right) \o <<Txt(")")>>
  ELSE IF expression.k = "Assignment"
  THEN <<Txt("(")>> \o PrintExpression(expression.left) \o <<Txt(" = ")>>
         \o PrintExpression(expression.right) \o <<Txt(")")>>
  ELSE IF expression.k = "Call"
  THEN <<FunctionName(expression.function_id), Txt("(")>>
         \o comma_separated([i \in 1..Len(expression.arguments) |->
                               PrintExpression(expression.arguments[i])])
         \o <<Txt(")")>>
  ELSE <<>>

\* PrintStatement::print and PrintBlock::print
RECURSIVE PrintStatement(_)
RECURSIVE PrintBlock(_)
RECURSIVE PrintStatements(_, _)
PrintStatements(block, i) ==
  IF i > Len(block) THEN <<>>
  ELSE PrintStatement(block[i]) \o <<Ln>> \o PrintStatements(block, i + 1)

PrintBlock(block) ==
  <<Txt("{"), Ln>> \o PrintStatements(block, 1) \o <<Txt("}")>>

PrintStatement(statement) ==
  IF statement.k = "BlockStatement" THEN PrintBlock(statement.block)
  ELSE IF statement.k = "EmptyStatement" THEN <<Txt(";")>>
  ELSE IF statement.k = "LetStatement"
  THEN PrintType(statement.type.type)
         \o <<Txt(" "), SourceName(statement.name), Txt(" = ")>>
         \o PrintExpression(statement.expression) \o <<Txt(";")>>
  ELSE IF statement.k = "IfStatement"
  THEN <<Txt("if (")>> \o PrintExpression(statement.condition) \o <<Txt(") ")>>
         \o PrintStatement(statement.then_statement)
         \o (IF ~IsNull(statement.else_statement)
             THEN <<Txt(" else ")>> \o PrintStatement(statement.else_statement)
             ELSE <<>>)
  ELSE IF statement.k = "WhileStatement"
  THEN <<Txt("while (")>> \o PrintExpression(statement.condition) \o <<Txt(") ")>>
         \o PrintStatement(statement.statement)
  ELSE IF statement.k = "ReturnStatement"
  THEN IF ~IsNull(statement.expression)
       THEN <<Txt("return ")>> \o PrintExpression(statement.expression) \o <<Txt(";")>>
       ELSE <<Txt("return;")>>
  ELSE IF statement.k = "ExpressionStatement"
  THEN PrintExpression(statement.expression) \o <<Txt(";")>>
  ELSE <<>>

\* the members of a struct, one "% %;" line each
RECURSIVE PrintMembers(_, _)
PrintMembers(members, i) ==
  IF i > Len(members) THEN <<>>
  ELSE PrintType(members[i].type) \o <<Txt(" "), SourceName(members[i].name), Txt(";"), Ln>>
         \o PrintMembers(members, i + 1)

\* PrintTypeDefinition::print
PrintTypeDefinition(type) ==
  IF heap[type].kind = "VoidType"
  THEN <<Txt("typedef void "), TypeName(heap[type].id), Txt(";")>>
  ELSE IF heap[type].kind = "IntType"
  THEN <<Txt("typedef int "), TypeName(heap[type].id), Txt(";")>>
  ELSE IF heap[type].kind = "StructureInstantiation"
  THEN <<Txt("typedef struct "), TypeName(heap[type].id), Txt(" "),
         TypeName(heap[type].id), Txt(";"), Ln,
         Txt("struct "), TypeName(heap[type].id), Txt(" {"), Ln>>
         \o PrintMembers(heap[type].members, 1)
         \o <<Txt("};")>>
  ELSE <<>>

\* PrintFunctionArgument and PrintFunctionArguments
PrintFunctionArgument(argument) ==
  PrintType(argument.type) \o <<Txt(" "), SourceName(argument.name)>>

PrintFunctionArguments(function) ==
  IF heap[function].members = <<>> THEN <<Txt("void")>>
  ELSE comma_separated([i \in 1..Len(heap[function].members) |->
                          PrintFunctionArgument(heap[function].members[i])])

\* the head "static % f%(%)" of a declaration and of a definition
PrintFunctionHead(function) ==
  <<Txt("static ")>> \o PrintType(heap[function].return_type)
    \o <<Txt(" "), FunctionName(heap[function].id), Txt("(")>>
    \o PrintFunctionArguments(function) \o <<Txt(")")>>

\* PrintFunctionDeclaration::print
PrintFunctionDeclaration(function) == PrintFunctionHead(function) \o <<Txt(";")>>

\* an is_builtin_print_int that does not look at the name (a faulty variant)
is_builtin_print_int_any_name(function) ==
  /\ program.functions[heap[function].template].template_arguments = <<>>
  /\ Len(heap[function].members) = 1
  /\ heap[heap[function].members[1].type].kind = "IntType"
  /\ heap[heap[function].return_type].kind = "VoidType"
  /\ heap[function].block = <<>>

\* PrintFunctionDefinition::is_builtin_print_int
is_builtin_print_int(function) ==
  /\ program.functions[heap[function].template].name = "print_int"
  /\ program.functions[heap[function].template].template_arguments = <<>>
  /\ Len(heap[function].members) = 1
  /\ heap[heap[function].members[1].type].kind = "IntType"
  /\ heap[heap[function].return_type].kind = "VoidType"
  /\ heap[function].block = <<>>

\* PrintFunctionDefinition::print
PrintFunctionDefinition(function) ==
  <<Txt("// "), SourceName(program.functions[heap[function].template].name), Ln>>
    \o (IF is_builtin_print_int(function)
        THEN <<Txt("int printf(const char*, ...);"), Ln>>
               \o PrintFunctionHead(function) \o <<Txt(" {"), Ln>>
               \o <<Txt("printf(\"%d\\n\", "), SourceName(heap[function].members[1].name),
                    Txt(");"), Ln, Txt("}")>>
        ELSE PrintFunctionHead(function) \o <<Txt(" ")>>
               \o PrintBlock(heap[function].block))

\* the lines of a for loop of PrintProgram::print, one after the other
RECURSIVE lines(_)
lines(items) ==
  IF items = <<>> THEN <<>> ELSE items[1] \o <<Ln>> \o lines(Tail(items))

\* PrintProgram::print
PrintProgram ==
  lines([i \in 1..Len(program.types) |-> PrintTypeDefinition(program.types[i])])
    \o lines([i \in 1..Len(program.function_instantiations) |->
                PrintFunctionDeclaration(program.function_instantiations[i])])
    \o lines([i \in 1..Len(program.function_instantiations) |->
                PrintFunctionDefinition(program.function_instantiations[i])])
    \o <<Txt("int main(void) {"), Ln,
         FunctionName(program.main_function_id), Txt("();"), Ln,
         Txt("return 0;"), Ln, Txt("}"), Ln>>

\* The driver (not among the sources; spec.md, "Propagation"): the emitter is
\* invoked after the analysis, and only if no error was recorded.
driver_invokes_codegen == phase = "analysed" /\ errors = <<>>

\* codegen_c
codegen_c ==
  /\ driver_invokes_codegen
  /\ output' = PrintProgram
  /\ phase' = "emitted"
  /\ UNCHANGED <<input, program, heap, errors, pass1, history, agenda, vals, parser>>

-----------------------------------------------------------------------------
(* The parser (src/parser.cpp).  A source text is a sequence of characters. *)
(* A parser applied at a position gives [result, position, value, error]:  *)
(* SUCCESS with the position after what it matched and the value           *)
(* collected, FAILURE with the position it was applied at, or ERROR with   *)
(* the position of the error and its message.  Positions count from 1, so  *)
(* the offset the parser reports is position - 1.  The combinators         *)
(* (sequence, choice, zero_or_more, not_, expect, error, pratt) are those  *)
(* of the parsley library, which is not among the sources; they are taken  *)
(* as spec.md (4.2) describes them.                                        *)

\* The longest source text of whitespace and comments that is tried.
MaxSourceLen == 4
\* The largest number of operands of an expression that is tried.
MaxOperands == 3

Success(position, value) ==
  [result |-> "SUCCESS", position |-> position, value |-> value, error |-> ""]
Failure(position) ==
  [result |-> "FAILURE", position |-> position, value |-> NullNode, error |-> ""]
Error(position, message) ==
  [result |-> "ERROR", position |-> position, value |-> NullNode, error |-> message]
whitespace_char == {" ", "\t", "\n", "\r"}
numeric_char == {"0", "1", "2", "3", "4", "5", "6", "7", "8", "9"}
alphabetic_char ==
  {"a", "b", "c", "d", "e", "f", "g", "h", "i", "j", "k", "l", "m", "n", "o", "p",
   "q", "r", "s", "t", "u", "v", "w", "x", "y", "z",
   "A", "B", "C", "D", "E", "F", "G", "H", "I", "J", "K", "L", "M", "N", "O", "P",
   "Q", "R", "S", "T", "U", "V", "W", "X", "Y", "Z", "_"}
alphanumeric_char == alphabetic_char \cup numeric_char

\* end()
end(source, position) == position > Len(source)

\* a character of a class at the position
char(source, position, class) == ~end(source, position) /\ source[position] \in class

\* a string literal (its characters) at the position
string(source, position, s) ==
  /\ position + Len(s) - 1 <= Len(source)
  /\ \A i \in 1..Len(s) : source[position + i - 1] = s[i]

\* zero_or_more(class): the position after the characters of the class
RECURSIVE zero_or_more(_, _, _)
zero_or_more(source, position, class) ==
  IF char(source, position, class) THEN zero_or_more(source, position + 1, class)
  ELSE position

\* zero_or_more(sequence(not_(s), any_char())): the position where s begins,
\* or the end
RECURSIVE zero_or_more_not(_, _, _)
zero_or_more_not(source, position, s) ==
  IF end(source, position) \/ string(source, position, s) THEN position
  ELSE zero_or_more_not(source, position + 1, s)

\* comment
comment(source, position) ==
  IF string(source, position, <<"/", "/">>)
  THEN Success(zero_or_more_not(source, position + 2, <<"\n">>), NullNode)
  ELSE IF string(source, position, <<"/", "*">>)
  THEN LET close == zero_or_more_not(source, position + 2, <<"*", "/">>)
       IN IF string(source, close, <<"*", "/">>) THEN Success(close + 2, NullNode)
          ELSE Error(close, "expected */")
  ELSE Failure(position)

\* whitespace: zero_or_more(whitespace_char), then
\* zero_or_more(sequence(comment, zero_or_more(whitespace_char)))
RECURSIVE comments(_, _)
comments(source, position) ==
  LET c == comment(source, position)
  IN IF c.result = "SUCCESS"
     THEN comments(source, zero_or_more(source, c.position, whitespace_char))
     ELSE IF c.result = "ERROR" THEN c
     ELSE Success(position, NullNode)

whitespace(source, position) ==
  comments(source, zero_or_more(source, position, whitespace_char))

\* keyword(s)
keyword(source, position, s) ==
  IF string(source, position, s) /\ ~char(source, position + Len(s), alphanumeric_char)
  THEN Success(position + Len(s), NullNode)
  ELSE Failure(position)

\* function and structure, as far as their keyword; what follows the
\* keyword is left out
function_parser(source, position) ==
  IF keyword(source, position, <<"f", "u", "n", "c">>).result = "SUCCESS"
  THEN [Failure(position) EXCEPT !.result = "UNMODELLED"]
  ELSE Failure(position)

structure_parser(source, position) ==
  IF keyword(source, position, <<"s", "t", "r", "u", "c", "t">>).result = "SUCCESS"
  THEN [Failure(position) EXCEPT !.result = "UNMODELLED"]
  ELSE Failure(position)

\* the loop of a program that does not look for the end (a faulty variant)
declarations_to_error(source, position) ==
  IF function_parser(source, position).result # "FAILURE" THEN function_parser(source, position)
  ELSE IF structure_parser(source, position).result # "FAILURE"
  THEN structure_parser(source, position)
  ELSE Error(position, "expected a toplevel declaration")

\* program, after the whitespace: zero_or_more(sequence(not_(end()),
\* choice(function, structure, error(...)), whitespace)), collected by the
\* ProgramCollector
declarations(source, position) ==
  IF end(source, position)
  THEN Success(position, [k |-> "Program", functions |-> <<>>, structures |-> <<>>])
  ELSE IF function_parser(source, position).result # "FAILURE" THEN function_parser(source, position)
  ELSE IF structure_parser(source, position).result # "FAILURE"
  THEN structure_parser(source, position)
  ELSE Error(position, "expected a toplevel declaration")

\* program
program_parser(source) ==
  LET w == whitespace(source, 1)
  IN IF w.result # "SUCCESS" THEN w ELSE declarations(source, w.position)

\* expect_identifier's identifier: the position after it, or FAILURE
identifier(source, position) ==
  IF char(source, position, alphabetic_char)
  THEN LET after == zero_or_more(source, position + 1, alphanumeric_char)
       IN Success(after, SubSeq(source, position, after - 1))
  ELSE Failure(position)

\* IntCollector::push for the digits from position up to last
digit_value(c) ==
  CASE c = "0" -> 0 [] c = "1" -> 1 [] c = "2" -> 2 [] c = "3" -> 3 [] c = "4" -> 4
    [] c = "5" -> 5 [] c = "6" -> 6 [] c = "7" -> 7 [] c = "8" -> 8 [] c = "9" -> 9

RECURSIVE IntCollector(_, _, _, _)
IntCollector(source, position, last, value) ==
  IF position > last THEN value
  ELSE IntCollector(source, position + 1, last, value * 10 + digit_value(source[position]))

\* int_literal
int_literal(source, position) ==
  IF char(source, position, numeric_char)
  THEN LET after == zero_or_more(source, position + 1, numeric_char)
       IN Success(after, IntCollector(source, position, after - 1, 0))
  ELSE Failure(position)

\* the operation that puts the sum before the product (a faulty variant)
pratt_level_sum_first(operation) ==
  CASE operation = "Assignment" -> 1
    [] operation \in {"EQ", "NE"} -> 2
    [] operation \in {"LT", "LE", "GT", "GE"} -> 3
    [] operation \in {"MUL", "DIV", "REM"} -> 4
    [] operation \in {"ADD", "SUB"} -> 5

\* expression_impl: the pratt_level an infix operation is declared in, the
\* first level being 1
pratt_level(operation) ==
  CASE operation = "Assignment" -> 1
    [] operation \in {"EQ", "NE"} -> 2
    [] operation \in {"LT", "LE", "GT", "GE"} -> 3
    [] operation \in {"ADD", "SUB"} -> 4
    [] operation \in {"MUL", "DIV", "REM"} -> 5

\* expression_impl: the levels of the postfix operators and of the terminals
PostfixLevel == 6
TerminalLevel == 7

\* expression_impl: infix_rtl or infix_ltr
infix_rtl(operation) == operation = "Assignment"

\* expression_impl: the infix operators in the order they are declared in:
\* the characters, and the characters that must not follow them (not_)
infix_operators ==
  << [operation |-> "Assignment", s |-> <<"=">>, not_followed |-> <<"=">>],
     [operation |-> "EQ", s |-> <<"=", "=">>, not_followed |-> <<>>],
     [operation |-> "NE", s |-> <<"!", "=">>, not_followed |-> <<>>],
     [operation |-> "LT", s |-> <<"<">>, not_followed |-> <<"=">>],
     [operation |-> "LE", s |-> <<"<", "=">>, not_followed |-> <<>>],
     [operation |-> "GT", s |-> <<">">>, not_followed |-> <<"=">>],
     [operation |-> "GE", s |-> <<">", "=">>, not_followed |-> <<>>],
     [operation |-> "ADD", s |-> <<"+">>, not_followed |-> <<>>],
     [operation |-> "SUB", s |-> <<"-">>, not_followed |-> <<>>],
     [operation |-> "MUL", s |-> <<"*">>, not_followed |-> <<>>],
     [operation |-> "DIV", s |-> <<"/">>, not_followed |-> <<>>],
     [operation |-> "REM", s |-> <<"%">>, not_followed |-> <<>>] >>

\* operator_(p): sequence(whitespace, ignore(p), whitespace)
operator_(source, position, operator) ==
  LET before == whitespace(source, position)
      at == before.position
      matched == /\ string(source, at, operator.s)
                 /\ \/ operator.not_followed = <<>>
                    \/ ~string(source, at + Len(operator.s), operator.not_followed)
  IN IF before.result # "SUCCESS" THEN before
     ELSE IF ~matched THEN Failure(position)
     ELSE whitespace(source, at + Len(operator.s))

\* ExpressionCollector::push(right, operation) and push(right, Tag<Assignment>)
ExpressionCollector(left, operation, right) ==
  IF operation = "Assignment" THEN Assignment(left, right)
  ELSE BinaryExpression(operation, left, right)

\* the first of the operators of a level that does not fail at the position:
\* [operator, result], operator 0 if all fail
RECURSIVE choice_of_operators(_, _, _, _)
choice_of_operators(source, position, level, i) ==
  IF i > Len(infix_operators) THEN [operator |-> 0, result |-> Failure(position)]
  ELSE IF pratt_level(infix_operators[i].operation) # level
  THEN choice_of_operators(source, position, level, i + 1)
  ELSE LET r == operator_(source, position, infix_operators[i])
       IN IF r.result = "FAILURE" THEN choice_of_operators(source, position, level, i + 1)
          ELSE [operator |-> i, result |-> r]

\* pratt: the operand of a level is an expression of the next level; a
\* left-to-right level then takes operators and operands of the next level
\* as long as there are any, a right-to-left level takes an operator and an
\* expression of its own level
RECURSIVE pratt(_, _, _)
RECURSIVE infix(_, _, _)
RECURSIVE postfix(_, _)
RECURSIVE terminal(_, _)
RECURSIVE call_arguments(_, _, _)

\* expression
expression_parser(source, position) == pratt(source, position, 1)

pratt(source, position, level) ==
  LET operand(left) ==
        IF left.result # "SUCCESS" THEN left
        ELSE IF level = PostfixLevel THEN postfix(source, left)
        ELSE infix(source, left, level)
  IN IF level = TerminalLevel THEN terminal(source, position)
     ELSE operand(pratt(source, position, level + 1))

infix(source, left, level) ==
  LET joined(right, operation) ==
        IF right.result # "SUCCESS" THEN right
        ELSE IF infix_rtl(operation)
        THEN Success(right.position,
                     ExpressionCollector(left.value, operation, right.value))
        ELSE infix(source,
                   Success(right.position,
                           ExpressionCollector(left.value, operation, right.value)),
                   level)
      operated(found, operation) ==
        IF found.result # "SUCCESS" THEN found
        ELSE joined(pratt(source, found.position,
                          IF infix_rtl(operation) THEN level ELSE level + 1),
                    operation)
      chosen(found) ==
        IF found.operator = 0 THEN left
        ELSE operated(found.result, infix_operators[found.operator].operation)
  IN chosen(choice_of_operators(source, left.position, level, 1))

\* comma_separated(sequence(not_(')'), not_(end()), expression)), after the
\* first expression: [result, arguments]
call_arguments(source, position, arguments) ==
  LET spaced(after_next, next) ==
        IF after_next.result # "SUCCESS" THEN after_next
        ELSE call_arguments(source, after_next.position, Append(arguments, next.value))
      item(next) ==
        IF next.result # "SUCCESS" THEN next
        ELSE spaced(whitespace(source, next.position), next)
      comma(after_comma) ==
        IF after_comma.result # "SUCCESS" THEN after_comma
        ELSE IF end(source, after_comma.position)
                \/ string(source, after_comma.position, <<")">>)
        THEN Success(position, arguments)
        ELSE item(expression_parser(source, after_comma.position))
  IN IF ~string(source, position, <<",">>)
     THEN Success(position, arguments)
     ELSE comma(whitespace(source, position + 1))

\* the postfix level: a call, or a member access, as long as there is one
postfix(source, left) ==
  LET \* the call
      closed(close, arguments) ==
        IF close.result # "SUCCESS" THEN close
        ELSE IF ~string(source, close.position, <<")">>)
        THEN Error(close.position, "expected )")
        ELSE postfix(source, Success(close.position + 1,
                                     Call(left.value, arguments.value)))
      listed(arguments) ==
        IF arguments.result # "SUCCESS" THEN arguments
        ELSE closed(whitespace(source, arguments.position), arguments)
      spaced(after_first, first) ==
        IF after_first.result # "SUCCESS" THEN after_first
        ELSE listed(call_arguments(source, after_first.position, <<first.value>>))
      started(first) ==
        IF first.result # "SUCCESS" THEN first
        ELSE spaced(whitespace(source, first.position), first)
      call(open) ==
        IF open.result # "SUCCESS" THEN open
        ELSE IF end(source, open.position) \/ string(source, open.position, <<")">>)
        THEN listed(Success(open.position, <<>>))
        ELSE started(expression_parser(source, open.position))
      \* the member access
      accessed(member) ==
        IF member.result # "SUCCESS" THEN left
        ELSE postfix(source, Success(member.position,
                                     MemberAccess(left.value, member.value)))
      access(dot) ==
        IF dot.result # "SUCCESS" THEN dot
        ELSE accessed(identifier(source, dot.position))
      operator(before) ==
        IF before.result # "SUCCESS" THEN left
        ELSE IF string(source, before.position, <<"(">>)
        THEN call(whitespace(source, before.position + 1))
        ELSE IF string(source, before.position, <<".">>)
        THEN access(whitespace(source, before.position + 1))
        ELSE left
  IN operator(whitespace(source, left.position))

\* the terminals: a parenthesized expression, false, true, an integer
\* literal, an identifier, or the error
terminal(source, position) ==
  LET closed(close, inner) ==
        IF close.result # "SUCCESS" THEN close
        ELSE IF ~string(source, close.position, <<")">>)
        THEN Error(close.position, "expected )")
        ELSE Success(close.position + 1, inner.value)
      parenthesized(inner) ==
        IF inner.result # "SUCCESS" THEN inner
        ELSE closed(whitespace(source, inner.position), inner)
      opened(open) ==
        IF open.result # "SUCCESS" THEN open
        ELSE parenthesized(expression_parser(source, open.position))
      false == keyword(source, position, <<"f", "a", "l", "s", "e">>)
      true == keyword(source, position, <<"t", "r", "u", "e">>)
      number == int_literal(source, position)
      name == identifier(source, position)
  IN IF string(source, position, <<"(">>)
     THEN opened(whitespace(source, position + 1))
     ELSE IF false.result = "SUCCESS" THEN Success(false.position, IntLiteral(0))
     ELSE IF true.result = "SUCCESS" THEN Success(true.position, IntLiteral(1))
     ELSE IF number.result = "SUCCESS" THEN Success(number.position, IntLiteral(number.value))
     ELSE IF name.result = "SUCCESS" THEN Success(name.position, Name(name.value))
     ELSE Error(position, "expected an expression")

\* print_number (parsley/printer.hpp): the decimal digits of a number
RECURSIVE print_number(_)
print_number(n) ==
  LET digit_char(d) ==
        CASE d = 0 -> "0" [] d = 1 -> "1" [] d = 2 -> "2" [] d = 3 -> "3"
          [] d = 4 -> "4" [] d = 5 -> "5" [] d = 6 -> "6" [] d = 7 -> "7"
          [] d = 8 -> "8" [] d = 9 -> "9"
  IN IF n < 10 THEN <<digit_char(n)>>
     ELSE print_number(n \div 10) \o <<digit_char(n % 10)>>

\* the characters of a printed text; the name of a Name made by the parser
\* is the sequence of its characters
RECURSIVE characters(_)
characters(tokens) ==
  IF tokens = <<>> THEN <<>>
  ELSE LET \* the characters of the pieces of text that PrintExpression writes
           text_characters(s) ==
             CASE s = "(" -> <<"(">>
               [] s = ")" -> <<")">>
               [] s = " " -> <<" ">>
               [] s = ", " -> <<",", " ">>
               [] s = " = " -> <<" ", "=", " ">>
               [] s = "+" -> <<"+">>
               [] s = "-" -> <<"-">>
               [] s = "*" -> <<"*">>
               [] s = "/" -> <<"/">>
               [] s = "%" -> <<"%">>
               [] s = "==" -> <<"=", "=">>
               [] s = "!=" -> <<"!", "=">>
               [] s = "<" -> <<"<">>
               [] s = "<=" -> <<"<", "=">>
               [] s = ">" -> <<">">>
               [] s = ">=" -> <<">", "=">>
               [] s = "" -> <<>>
           t == tokens[1]
       IN (IF t.tok = "number" THEN print_number(t.n)
           ELSE IF t.tok = "name" THEN t.s
           ELSE IF t.tok = "text" THEN text_characters(t.s)
           ELSE <<>>)
            \o characters(Tail(tokens))

\* no source text: the program is given as parsed
NoSource ==
  [goal |-> "none", source |-> <<>>, stage |-> "source", result |-> NullNode,
   text |-> <<>>, again |-> NullNode]

\* parse_program: the program parser on the source text; an error is added
\* to the errors with the offset it is at
parse_program ==
  /\ parser.goal = "program"
  /\ parser.stage = "source"
  /\ LET result == program_parser(parser.source)
     IN /\ parser' = [parser EXCEPT !.stage = "parsed", !.result = result]
        /\ errors' = IF result.result = "ERROR"
                     THEN Append(errors, [message |-> result.error, name |-> "",
                                          number |-> 0, offset |-> result.position - 1])
                     ELSE errors
  /\ UNCHANGED <<input, phase, program, heap, pass1, history, agenda, vals, output>>

\* the expression parser on the source text
parse_expression ==
  /\ parser.goal = "expression"
  /\ parser.stage = "source"
  /\ parser' = [parser EXCEPT !.stage = "parsed",
                              !.result = expression_parser(parser.source, 1)]
  /\ UNCHANGED <<input, phase, program, heap, errors, pass1, history, agenda, vals,
                 output>>

\* PrintExpression on the expression that was parsed
print_expression ==
  /\ parser.goal = "expression"
  /\ parser.stage = "parsed"
  /\ parser.result.result = "SUCCESS"
  /\ parser' = [parser EXCEPT !.stage = "printed",
                              !.text = characters(PrintExpression(parser.result.value))]
  /\ UNCHANGED <<input, phase, program, heap, errors, pass1, history, agenda, vals,
                 output>>

\* the expression parser on the printed text
parse_printed ==
  /\ parser.stage = "printed"
  /\ parser' = [parser EXCEPT !.stage = "parsed again",
                              !.again = expression_parser(parser.text, 1)]
  /\ UNCHANGED <<input, phase, program, heap, errors, pass1, history, agenda, vals,
                 output>>

-----------------------------------------------------------------------------
(* The pipeline.                                                           *)

Init ==
  /\ input \in Bodies
  /\ phase = "parsed"
  /\ \E mains \in Mains(input) :
       program = Program(LibraryFunctions \o mains, Structures)
  /\ heap = <<>>
  /\ errors = <<>>
  /\ pass1 = Pass1(Null, Null)
  /\ history = <<>>
  /\ agenda = <<>>
  /\ vals = <<>>
  /\ output = <<>>
  /\ parser = NoSource

Next ==
  \/ run
  \/ run_main
  \/ get_function
  \/ Unification_run
  \/ Unification_match
  \/ Unification_match_type
  \/ Unification_finish
  \/ get_function_select
  \/ instantiate_structure
  \/ instantiate_structure_member
  \/ instantiate_structure_finish
  \/ instantiate_function
  \/ instantiate_function_argument
  \/ instantiate_function_variables
  \/ instantiate_function_block
  \/ instantiate_function_finish
  \/ get_type
  \/ handle_type
  \/ handle_expression
  \/ handle_binary_expression
  \/ handle_assignment
  \/ handle_call
  \/ handle_member_access
  \/ handle_block
  \/ handle_block_finish
  \/ handle_statement
  \/ handle_block_statement
  \/ handle_let_expression
  \/ handle_let_statement
  \/ handle_if_statement
  \/ handle_while_statement
  \/ handle_return_statement
  \/ handle_expression_statement
  \/ codegen_c

Spec == Init /\ [][Next]_vars

\* The analysis is one sequential call, run to its end: a step that can be
\* taken is taken.
FairSpec == Spec /\ WF_vars(Next)

\* The further programs: main is made of statements of CasePool and of two
\* of Pool, and the declarations of CaseLibrary are added.
CaseInit ==
  /\ input \in UNION {[1..n -> {2, 9} \cup (Len(Pool) + 1..Len(Pool) + Len(CasePool))]
                       : n \in 0..MaxStmts}
  /\ phase = "parsed"
  /\ program = Program(LibraryFunctions \o CaseLibrary.functions \o <<MainFunction(input)>>,
                       Structures \o CaseLibrary.structures)
  /\ heap = <<>>
  /\ errors = <<>>
  /\ pass1 = Pass1(Null, Null)
  /\ history = <<>>
  /\ agenda = <<>>
  /\ vals = <<>>
  /\ output = <<>>
  /\ parser = NoSource

CaseSpec == CaseInit /\ [][Next]_vars

-----------------------------------------------------------------------------
(* The parser on source texts.                                             *)

\* the source texts of whitespace, comments and other characters
ProgramSources ==
  UNION {[1..n -> {" ", "\n", "/", "*", "x"}] : n \in 0..MaxSourceLen}

\* the source texts of expressions: operands (a name or a digit, another one
\* at each place) with an infix operator between spaces after each but the
\* last
RECURSIVE ExpressionSourcesOf(_)
ExpressionSourcesOf(n) ==
  LET Operands(i) == {<<(<<"a", "b", "c", "d", "e">>)[i]>>,
                      <<(<<"1", "2", "3", "4", "5">>)[i]>>}
      OperatorTexts == {infix_operators[i].s : i \in DOMAIN infix_operators}
  IN IF n = 1 THEN Operands(1)
     ELSE {s \o <<" ">> \o o \o <<" ">> \o x :
             s \in ExpressionSourcesOf(n - 1), o \in OperatorTexts, x \in Operands(n)}

ExpressionSources == UNION {ExpressionSourcesOf(n) : n \in 1..MaxOperands}

ParserInit ==
  /\ input = <<>>
  /\ phase = "source"
  /\ program = Program(<<>>, <<>>)
  /\ heap = <<>>
  /\ errors = <<>>
  /\ pass1 = Pass1(Null, Null)
  /\ history = <<>>
  /\ agenda = <<>>
  /\ vals = <<>>
  /\ output = <<>>
  /\ \E goal \in {"program", "expression"} :
       \E source \in (IF goal = "program" THEN ProgramSources ELSE ExpressionSources) :
         parser = [NoSource EXCEPT !.goal = goal, !.source = source]

ParserNext ==
  \/ parse_program
  \/ parse_expression
  \/ print_expression
  \/ parse_printed

ParserSpec == ParserInit /\ [][ParserNext]_vars

-----------------------------------------------------------------------------
(* The IR after the analysis, and what is read from it and from the        *)
(* history below.                                                          *)

Done == phase \in {"analysed", "emitted"}
Accepted == Done /\ errors = <<>>

Range(s) == {s[i] : i \in DOMAIN s}

RECURSIVE Flatten(_)
Flatten(items) == IF items = <<>> THEN <<>> ELSE items[1] \o Flatten(Tail(items))

\* an expression of the IR and the expressions in it
RECURSIVE ExpressionsIn(_)
ExpressionsIn(e) ==
  IF IsNull(e) THEN <<>>
  ELSE <<e>> \o
       (IF e.k \in {"BinaryExpression", "Assignment"}
        THEN ExpressionsIn(e.left) \o ExpressionsIn(e.right)
        ELSE IF e.k = "Call"
        THEN Flatten([i \in 1..Len(e.arguments) |-> ExpressionsIn(e.arguments[i])])
        ELSE IF e.k = "MemberAccess" THEN ExpressionsIn(e.expression)
        ELSE <<>>)

\* a statement of the IR and the statements in it
RECURSIVE StatementsIn(_)
StatementsIn(s) ==
  IF IsNull(s) THEN <<>>
  ELSE <<s>> \o
       (IF s.k = "BlockStatement"
        THEN Flatten([i \in 1..Len(s.block) |-> StatementsIn(s.block[i])])
        ELSE IF s.k = "IfStatement"
        THEN StatementsIn(s.then_statement) \o StatementsIn(s.else_statement)
        ELSE IF s.k = "WhileStatement" THEN StatementsIn(s.statement)
        ELSE <<>>)

\* the expression a statement holds itself
StatementExpression(s) ==
  IF s.k \in {"LetStatement", "ReturnStatement", "ExpressionStatement"} THEN s.expression
  ELSE IF s.k \in {"IfStatement", "WhileStatement"} THEN s.condition
  ELSE NullNode

\* the statements and the expressions of the body of a function instantiation
IRStatements(f) == Flatten([i \in 1..Len(heap[f].block) |-> StatementsIn(heap[f].block[i])])
IRExpressions(f) ==
  LET statements == IRStatements(f)
  IN Flatten([i \in 1..Len(statements) |-> ExpressionsIn(StatementExpression(statements[i]))])

HeapFunctions == {p \in DOMAIN heap : heap[p].kind = "FunctionInstantiation"}
HeapTypes == DOMAIN heap \ HeapFunctions
ListedTypes == Range(program.types)
ListedFunctions == Range(program.function_instantiations)

\* the function ids the body of f calls
CalledIds(f) ==
  LET expressions == IRExpressions(f)
  IN {expressions[i].function_id : i \in {j \in DOMAIN expressions : expressions[j].k = "Call"}}
Calls(f, g) == heap[g].id \in CalledIds(f)

\* what a node refers to: a function instantiation to its argument types,
\* return type, template arguments, the types of its expressions and lets and
\* the functions it calls; a structure instantiation to its member types and
\* template arguments
Refers(p) ==
  ({heap[p].members[i].type : i \in DOMAIN heap[p].members}
     \cup Range(heap[p].template_arguments)
     \cup (IF heap[p].kind = "FunctionInstantiation"
           THEN LET expressions == IRExpressions(p)
                    statements == IRStatements(p)
                IN {heap[p].return_type}
                     \cup {expressions[i].type : i \in DOMAIN expressions}
                     \cup {statements[i].type.type :
                             i \in {j \in DOMAIN statements : statements[j].k = "LetStatement"}}
                     \cup {g \in HeapFunctions : Calls(p, g)}
           ELSE {}))
    \ {Null}

RECURSIVE Reachable(_)
Reachable(from) ==
  LET more == from \cup UNION {Refers(p) : p \in from}
  IN IF more = from THEN from ELSE Reachable(more)

MainInstantiation ==
  {p \in HeapFunctions : program.main_function_id # 0 /\ heap[p].id = program.main_function_id}

Ids(list) == [i \in DOMAIN list |-> heap[list[i]].id]
Increasing(ids) == \A i, j \in DOMAIN ids : i < j => ids[i] < ids[j]
Occurrences(list, p) == Cardinality({i \in DOMAIN list : list[i] = p})

\* the events of one kind, in order
Events(ev) == SelectSeq(history, LAMBDA e : e.ev = ev)

-----------------------------------------------------------------------------
(* C1 *)

\* C1: when the analysis has finished, the function-instantiation list and
\* the type list hold exactly the instantiations reachable from main: every
\* reachable one, and nothing else.  It is stated of the programs analysed
\* without an error, which are among the programs the claim is about.
C1_ListsAreExactlyTheReachable ==
  Accepted => ListedTypes \cup ListedFunctions = Reachable(MainInstantiation)

-----------------------------------------------------------------------------
(* C2 *)

\* C2: in an accepted program, every Call in the body of every function
\* instantiation has the id of a function instantiation of the list.
C2_CallsNameListedFunctions ==
  Accepted =>
    \A f \in HeapFunctions : CalledIds(f) \subseteq Range(Ids(program.function_instantiations))

\* an accepted program with two functions that call each other: one of the
\* two calls was resolved while its callee was still being walked
C2_MutualRecursionAccepted ==
  /\ Accepted
  /\ \E f, g \in ListedFunctions : f # g /\ Calls(f, g) /\ Calls(g, f)

-----------------------------------------------------------------------------
(* C3 *)

\* C3: any two demands for the same template and the same type arguments
\* return the same node, which is an instantiation of that template with
\* those arguments and got its id once; the node is in the list at most
\* once, and exactly once when the analysis has finished.
C3_MemoIdempotent ==
  LET demands == Events("demand")
      list(d) == IF d.a = "function" THEN program.function_instantiations
                 ELSE program.types
  IN /\ \A i, j \in DOMAIN demands :
          demands[i].a = demands[j].a /\ demands[i].b = demands[j].b
            => demands[i].ptr = demands[j].ptr
     /\ \A i \in DOMAIN demands :
          /\ heap[demands[i].ptr].template = demands[i].b[1]
          /\ heap[demands[i].ptr].template_arguments = demands[i].b[2]
          /\ Cardinality({k \in DOMAIN history :
                            history[k].ev = "set_id" /\ history[k].ptr = demands[i].ptr}) = 1
          /\ Occurrences(list(demands[i]), demands[i].ptr) <= 1
          /\ Done => Occurrences(list(demands[i]), demands[i].ptr) = 1

\* an accepted program in which a generic function was demanded twice with
\* the same type arguments
C3_DemandedTwice ==
  /\ Accepted
  /\ LET demands == Events("demand")
     IN \E i, j \in DOMAIN demands :
          /\ i < j
          /\ demands[i].a = "function" /\ demands[j].a = "function"
          /\ demands[i].b = demands[j].b
          /\ demands[i].b[2] # <<>>

-----------------------------------------------------------------------------
(* C4 *)

StructurallyEqual(p, q) ==
  /\ heap[p].kind = heap[q].kind
  /\ heap[p].kind = "StructureInstantiation"
       => /\ heap[p].template = heap[q].template
          /\ heap[p].template_arguments = heap[q].template_arguments

\* C4: no two distinct type nodes are structurally equal, and when the
\* analysis has finished every type reachable from a function instantiation
\* is in the type list exactly once.
C4_TypesListedOnceAndCanonical ==
  /\ \A p, q \in HeapTypes : StructurallyEqual(p, q) => p = q
  /\ Done => \A p \in Reachable(HeapFunctions) \cap HeapTypes :
               Occurrences(program.types, p) = 1

\* an accepted program with an instantiation of a generic structure whose
\* type was asked for more than once
C4_GenericStructureListed ==
  /\ Accepted
  /\ \E p \in ListedTypes :
       /\ heap[p].template_arguments # <<>>
       /\ Cardinality({k \in DOMAIN history :
                         history[k].ev = "demand" /\ history[k].ptr = p}) >= 2

-----------------------------------------------------------------------------
(* C5 *)

\* C5: every node has a positive id, given to it once, right after its
\* creation, and never changed; each id given is greater than the ids given
\* before; the ids of the two lists together are pairwise distinct.
C5_IdsPositiveIncreasingUnique ==
  LET set_ids == Events("set_id")
      listed == program.types \o program.function_instantiations
  IN /\ \A p \in DOMAIN heap : heap[p].id > 0
     /\ \A k \in DOMAIN history :
          history[k].ev = "new"
            => /\ k < Len(history)
               /\ history[k + 1].ev = "set_id"
               /\ history[k + 1].ptr = history[k].ptr
     /\ \A i, j \in DOMAIN set_ids :
          i < j => set_ids[i].ptr # set_ids[j].ptr /\ set_ids[i].a < set_ids[j].a
     /\ \A i \in DOMAIN set_ids : heap[set_ids[i].ptr].id = set_ids[i].a
     /\ \A i, j \in DOMAIN listed : i # j => heap[listed[i]].id # heap[listed[j]].id

\* a finished analysis with several types and several functions
C5_SeveralTypesAndFunctions ==
  /\ Done
  /\ Len(program.types) >= 3
  /\ Len(program.function_instantiations) >= 3

-----------------------------------------------------------------------------
(* C6 *)

DeclarationAt(i) ==
  \/ /\ output[i].tok = "t"
     /\ i > 1
     /\ output[i - 1] \in {Txt("typedef void "), Txt("typedef int "), Txt("typedef struct ")}
  \/ /\ output[i].tok = "f"
     /\ i > 3
     /\ output[i - 3] = Txt("static ")
     /\ output[i - 2].tok = "t"
     /\ output[i - 1] = Txt(" ")

\* the ids the text declares as type names / function names, in text order
DeclaredIds(tok) ==
  LET places == {i \in DOMAIN output : output[i].tok = tok /\ DeclarationAt(i)}
      place(k) == CHOOSE i \in places : Cardinality({j \in places : j <= i}) = k
  IN [k \in 1..Cardinality(places) |-> output[place(k)].n]

\* the nodes in the order in which they were completed: a built-in type when
\* it is created, a structure instantiation after its members, a function
\* instantiation after its body
Completed(kinds) ==
  LET events == SelectSeq(history, LAMBDA e :
                  /\ e.ev \in {"new", "done"}
                  /\ heap[e.ptr].kind \in kinds
                  /\ (e.ev = "new") = (heap[e.ptr].kind \in {"VoidType", "IntType"}))
  IN [i \in DOMAIN events |-> events[i].ptr]

-----------------------------------------------------------------------------
(* C7 *)

\* C7: in the emitted text every use of a type name tN and of a function
\* name fN comes after a declaration of that name.
C7_DeclaredBeforeUse ==
  phase = "emitted" =>
    \A i \in DOMAIN output :
      output[i].tok \in {"t", "f"} /\ ~DeclarationAt(i)
        => \E j \in 1..(i - 1) : DeclarationAt(j) /\ output[j] = output[i]

-----------------------------------------------------------------------------
(* C8 *)

\* C8: in an accepted program every expression of the IR has a type.
C8_ExpressionsTyped ==
  Accepted =>
    \A f \in HeapFunctions :
      LET expressions == IRExpressions(f)
      IN \A i \in DOMAIN expressions : expressions[i].type # Null

\* an accepted program whose IR has a let, a return with an expression and a
\* call with an argument
C8_LetReturnAndArgument ==
  /\ Accepted
  /\ \E f \in ListedFunctions :
       \E i \in DOMAIN IRStatements(f) : IRStatements(f)[i].k = "LetStatement"
  /\ \E f \in ListedFunctions :
       \E i \in DOMAIN IRStatements(f) :
         /\ IRStatements(f)[i].k = "ReturnStatement"
         /\ ~IsNull(IRStatements(f)[i].expression)
  /\ \E f \in ListedFunctions :
       \E i \in DOMAIN IRExpressions(f) :
         /\ IRExpressions(f)[i].k = "Call"
         /\ IRExpressions(f)[i].arguments # <<>>

-----------------------------------------------------------------------------
(* C9 *)

\* C9: every if and while of the IR has a condition of type Int; when the
\* condition of an if or a while has another type, an error is added and the
\* statement is dropped.
C9_ConditionsAreInt ==
  /\ \A f \in HeapFunctions :
       LET statements == IRStatements(f)
       IN \A i \in DOMAIN statements :
            statements[i].k \in {"IfStatement", "WhileStatement"}
              => /\ ~IsNull(statements[i].condition)
                 /\ pass1.int_type # Null
                 /\ statements[i].condition.type = pass1.int_type
  /\ \A k \in DOMAIN history :
       /\ history[k].ev \in {"if", "while"}
       /\ history[k].ptr \notin {Null, pass1.int_type}
       => history[k].a = 1 /\ history[k].b = TRUE

\* a finished analysis that dropped a statement with a condition of another
\* type and kept an if or a while in the IR
C9_OneDroppedOneKept ==
  /\ Done
  /\ \E k \in DOMAIN history :
       /\ history[k].ev \in {"if", "while"}
       /\ history[k].ptr \notin {Null, pass1.int_type}
  /\ \E f \in ListedFunctions :
       \E i \in DOMAIN IRStatements(f) :
         IRStatements(f)[i].k \in {"IfStatement", "WhileStatement"}

-----------------------------------------------------------------------------
(* C10 *)

\* C10: every let of the IR has an initializer whose type is the type the
\* let records; the recorded type is the type the written type expression
\* resolved to, and the initializer's when none is written (or none was
\* resolved, which handle_type has reported); when the initializer's type
\* differs from the declared type, an error is added and the let is dropped.
C10_LetTypesAgree ==
  /\ \A f \in HeapFunctions :
       LET statements == IRStatements(f)
       IN \A i \in DOMAIN statements :
            statements[i].k = "LetStatement"
              => /\ ~IsNull(statements[i].expression)
                 /\ statements[i].type.type # Null
                 /\ statements[i].expression.type = statements[i].type.type
  /\ \A k \in DOMAIN history :
       history[k].ev = "let"
         => LET declared == history[k].a[1]
                initializer == history[k].a[2]
                reported == history[k].a[3]
            IN /\ history[k].ptr = (IF declared # Null THEN declared ELSE initializer)
               /\ declared # Null /\ initializer # Null /\ initializer # declared
                    => reported = 1 /\ history[k].b = TRUE
               /\ history[k].b = FALSE => history[k].ptr = initializer

\* a finished analysis that kept a let with a declared type and dropped one
\* whose initializer has another type than the declared one
C10_OneKeptOneDropped ==
  /\ Done
  /\ \E k \in DOMAIN history :
       /\ history[k].ev = "let"
       /\ history[k].a[1] # Null
       /\ history[k].b = FALSE
  /\ \E k \in DOMAIN history :
       /\ history[k].ev = "let"
       /\ history[k].a[1] # Null /\ history[k].a[2] # Null
       /\ history[k].a[1] # history[k].a[2]
  /\ \E f \in ListedFunctions :
       \E i \in DOMAIN IRStatements(f) : IRStatements(f)[i].k = "LetStatement"

-----------------------------------------------------------------------------
(* C11 *)

\* the newest event ev before event k
LastBefore(ev, k) ==
  CHOOSE j \in 1..(k - 1) :
    /\ history[j].ev = ev
    /\ \A i \in (j + 1)..(k - 1) : history[i].ev # ev

\* the unifications a selection (event k) has behind it, in order
Unifications(k) ==
  SelectSeq(SubSeq(history, LastBefore("lookup", k) + 1, k - 1),
            LAMBDA e : e.ev = "unify")

\* C11: a lookup of the name f tries every function of the program named f,
\* each once, and counts those that unify.  With exactly one, the selection
\* adds no error and goes on to instantiate that function with the template
\* arguments of its unification; with none it adds the one error
\* 'no matching function "f" found' and yields null; with N > 1 it adds the
\* one error 'N matching functions "f" found' and yields null.
C11_OverloadResolution ==
  /\ \A k \in DOMAIN history :
       history[k].ev = "select"
         => LET name == history[k].a[1]
                match_count == history[k].a[2]
                added == SubSeq(errors, history[k].a[3] + 1, history[k].a[4])
                tried == Unifications(k)
                unified == SelectSeq(tried, LAMBDA e : e.b)
            IN /\ history[LastBefore("lookup", k)].a = name
               /\ {tried[i].ptr : i \in DOMAIN tried}
                    = {i \in DOMAIN program.functions : program.functions[i].name = name}
               /\ \A i, j \in DOMAIN tried : i < j => tried[i].ptr < tried[j].ptr
               /\ match_count = Len(unified)
               /\ match_count = 1
                    => /\ added = <<>>
                       /\ history[k].ptr = unified[1].ptr
                       /\ history[k].b = unified[1].a
               /\ match_count = 0
                    => added = <<[message |-> "no matching function \"%\" found",
                                  name |-> name, number |-> 0]>>
               /\ match_count > 1
                    => added = <<[message |-> "% matching functions \"%\" found",
                                  name |-> name, number |-> match_count]>>
  /\ phase = "analysing" /\ history # <<>> /\ history[Len(history)].ev = "select"
       => LET selection == history[Len(history)]
          IN IF selection.a[2] = 1
             THEN Head(agenda) = DoInstantiateFunction(selection.ptr, selection.b)
             ELSE Top(vals) = Null

\* a finished analysis with a lookup that one of two functions of the name
\* matched, one that none matched and one that two matched
C11_OneNoneAndSeveral ==
  /\ Done
  /\ \E k \in DOMAIN history :
       /\ history[k].ev = "select"
       /\ history[k].a[2] = 1
       /\ Len(Unifications(k)) = 2
  /\ \E k \in DOMAIN history : history[k].ev = "select" /\ history[k].a[2] = 0
  /\ \E k \in DOMAIN history : history[k].ev = "select" /\ history[k].a[2] = 2

-----------------------------------------------------------------------------
(* C12 *)

\* the events of a kind about the node p
EventsAbout(ev, p) == {k \in DOMAIN history : history[k].ev = ev /\ history[k].ptr = p}

\* the body of each function instantiation is walked at most once, no two
\* walked instantiations are of the same function with the same template
\* arguments, and a demand made while the body is being walked (a recursive
\* call) gets the node whose body is being walked, without another walk
C12_WalkedOnce ==
  /\ phase # "diverged"
  /\ \A p \in HeapFunctions : Cardinality(EventsAbout("walk", p)) <= 1
  /\ \A p, q \in HeapFunctions :
       /\ EventsAbout("walk", p) # {} /\ EventsAbout("walk", q) # {}
       /\ heap[p].template = heap[q].template
       /\ heap[p].template_arguments = heap[q].template_arguments
       => p = q
  /\ \A k \in DOMAIN history :
       history[k].ev = "walk"
         => \A j \in DOMAIN history :
              /\ j > k
              /\ history[j].ev = "demand"
              /\ history[j].a = "function"
              /\ history[j].b = <<heap[history[k].ptr].template,
                                  heap[history[k].ptr].template_arguments>>
              => history[j].ptr = history[k].ptr

\* C12: the analysis of a program with directly or mutually recursive
\* functions comes to its end, and the body of each function instantiation
\* is walked at most once: a demand for an instantiation that is in the memo
\* returns it without walking its body again.
C12_RecursionTerminates == []C12_WalkedOnce /\ <>Done

\* a finished analysis in which a function was demanded again while its body
\* was being walked, directly (mkS in mkS) and through another function
\* (even in odd in even)
C12_RecursiveDemands ==
  /\ Done
  /\ \E p \in HeapFunctions :
       \E k \in EventsAbout("walk", p), j \in EventsAbout("demand", p),
          d \in EventsAbout("done", p) :
         /\ k < j /\ j < d
         /\ \A i \in (k + 1)..(j - 1) : history[i].ev # "walk"
  /\ \E p, q \in HeapFunctions :
       /\ p # q
       /\ \E k \in EventsAbout("walk", p), w \in EventsAbout("walk", q),
            j \in EventsAbout("demand", p), d \in EventsAbout("done", q) :
            k < w /\ w < j /\ j < d

-----------------------------------------------------------------------------
(* C13 *)

\* the step of a construct one of whose already handled subexpressions is
\* null adds no error and yields null
Propagates(op, failed) ==
  At(op) /\ failed => errors' = errors /\ IsNull(Top(vals'))

\* C13: a failure is reported once: when a subexpression has yielded null,
\* the binary expression, assignment, member access, call, let, if, while
\* or expression statement around it yields null (is dropped) and adds no
\* error of its own.
C13_FailureReportedOnce ==
  [][/\ Propagates("handle_binary_expression",
                   IsNull(Top(vals)) \/ IsNull(Top(Pop(vals))))
     /\ Propagates("handle_assignment",
                   IsNull(Top(vals)) \/ IsNull(Top(Pop(vals))))
     /\ Propagates("handle_member_access", IsNull(Top(vals)))
     /\ Propagates("handle_let_statement", IsNull(Top(vals)))
     /\ Propagates("handle_if_statement", IsNull(Top(PopN(vals, 2))))
     /\ Propagates("handle_while_statement", IsNull(Top(Pop(vals))))
     /\ Propagates("handle_expression_statement", IsNull(Top(vals)))
     /\ At("get_function_select")
          /\ (\E i \in DOMAIN Top(vals).arguments : IsNull(Top(vals).arguments[i]))
          => errors' = errors /\ Top(vals') = Null]_vars

\* a call one of whose arguments has yielded null was looked up, and the
\* lookup has added an error of its own
C13_CallReportedAgain ==
  /\ phase = "analysing"
  /\ history # <<>>
  /\ history[Len(history)].ev = "select"
  /\ history[Len(history)].a[4] > history[Len(history)].a[3]
  /\ \E i \in DOMAIN Top(Pop(vals)) : IsNull(Top(Pop(vals))[i])

-----------------------------------------------------------------------------
(* C14 *)

\* C14: when a let of the name n has been handled, n is bound in the
\* current scope to the chosen type (the declared type, or the initializer's
\* when none is declared), whether or not the initializer type-checked.
C14_LetBindsName ==
  [][At("handle_let_statement")
       => LET declared == Top(Pop(vals))
              chosen == IF declared = Null THEN get_type_of(Top(vals)) ELSE declared
              bound == ScopeMap_look_up([Cfg EXCEPT !.pass1 = pass1'],
                                        pass1'.variables, I.name)
          IN bound # Null /\ bound = chosen]_vars

\* a let z without a declared type whose initializer failed has been
\* handled, and the use of z after it has recorded 'undefined variable "z"'
C14_UndefinedAfterLet ==
  /\ \E k \in DOMAIN history :
       /\ history[k].ev = "let"
       /\ history[k].ptr = Null
       /\ history[k].a[1] = Null
  /\ \E i \in DOMAIN errors :
       errors[i] = [message |-> "undefined variable \"%\"", name |-> "z", number |-> 0]

-----------------------------------------------------------------------------
(* C15 *)

\* the statements a statement is made of
Children(s) ==
  IF s.k = "BlockStatement" THEN s.block
  ELSE IF s.k = "IfStatement" THEN <<s.then_statement, s.else_statement>>
  ELSE IF s.k = "WhileStatement" THEN <<s.statement>>
  ELSE <<>>

\* the statements of main, and of every statement whose handling began, have
\* all begun to be handled when the analysis has finished
AllStatementsHandled ==
  LET began(s, after) == \E j \in DOMAIN history :
                           /\ j > after
                           /\ history[j].ev = "statement"
                           /\ history[j].a = s
  IN /\ program.main_function_id # 0
          => \A i \in DOMAIN input : began(Pool[input[i]], 0)
     /\ \A k \in DOMAIN history :
          history[k].ev = "statement"
            => \A i \in DOMAIN Children(history[k].a) :
                 began(Children(history[k].a)[i], k)

\* a let, if, while, return or expression statement during whose handling
\* an error was recorded yields null, so that handle_block leaves it out
ErroneousStatementOmitted ==
  \A op \in {"handle_let_statement", "handle_if_statement", "handle_while_statement",
             "handle_return_statement", "handle_expression_statement"} :
    At(op) /\ Len(errors') > I.errors_before => IsNull(Top(vals'))

\* C15: an error does not stop the analysis: the statement that recorded it
\* is left out of the IR block, and every statement after it is still
\* handled (so errors that do not depend on each other are all recorded).
C15_ErrorsDoNotStop ==
  [][ErroneousStatementOmitted]_vars /\ [](Done => AllStatementsHandled)

\* a return whose expression failed is in a block of the IR
C15_FailedReturnKept ==
  /\ Done
  /\ Len(errors) >= 2
  /\ \E f \in HeapFunctions :
       \E i \in DOMAIN IRStatements(f) :
         /\ IRStatements(f)[i].k = "ReturnStatement"
         /\ IRStatements(f)[i].expression.k = "null"
         /\ heap[f].template = Len(program.functions)

-----------------------------------------------------------------------------
(* C16 *)

\* the functions named main that have no template parameter, no argument
\* and the return type Void
EntryPoints ==
  {i \in DOMAIN program.functions :
     /\ program.functions[i].name = "main"
     /\ program.functions[i].template_arguments = <<>>
     /\ program.functions[i].arguments = <<>>
     /\ program.functions[i].return_type = Name("Void")}

\* C16: the entry point is looked up as main with no arguments and the
\* expected return type Void.  When exactly one function main fits, the id
\* of its instantiation becomes the main id; otherwise (no main, a main
\* with parameters, with another return type, with a template parameter
\* that nothing binds, or several mains) one error is recorded, no main id
\* is set and nothing is analysed.
C16_EntryPoint ==
  /\ phase = "analysing" /\ Events("lookup") = <<>>
       => /\ Head(agenda) = DoGetFunction("main", 0, pass1.void_type)
          /\ pass1.void_type # Null
          /\ heap[pass1.void_type].kind = "VoidType"
  /\ Done
       => IF Cardinality(EntryPoints) = 1
          THEN \E p \in HeapFunctions :
                 /\ heap[p].template \in EntryPoints
                 /\ heap[p].template_arguments = <<>>
                 /\ program.main_function_id = heap[p].id
                 /\ program.main_function_id # 0
                 /\ Events("select")[1].a[2] = 1
          ELSE /\ program.main_function_id = 0
               /\ Len(errors) = 1
               /\ errors[1].name = "main"
               /\ errors[1].message
                    = (IF EntryPoints = {} THEN "no matching function \"%\" found"
                       ELSE "% matching functions \"%\" found")
               /\ HeapFunctions = {}
               /\ program.function_instantiations = <<>>
               /\ Events("statement") = <<>>

\* the analysis has finished without a main id for a program whose main
\* has a body and returns Int
C16_MainReturnsInt ==
  /\ Done
  /\ program.main_function_id = 0
  /\ input # <<>>
  /\ \E i \in DOMAIN program.functions :
       /\ program.functions[i].name = "main"
       /\ program.functions[i].return_type = Name("Int")

-----------------------------------------------------------------------------
(* C17 *)

\* the call f(r, a1, ..., an) for the call r.f(a1, ..., an)
Rewritten(e) ==
  Call(Name(e.expression.member_name), <<e.expression.expression>> \o e.arguments)

\* the step that begins the call r.f(a1, ..., an) leaves the state that the
\* step beginning f(r, a1, ..., an) in its place would leave: the same
\* expressions to handle, the receiver first, the same look-up (name, number
\* of arguments, expected type) and nothing recorded
SameAsRewritten ==
  /\ At("handle_expression")
  /\ I.expression.k = "Call"
  /\ I.expression.expression.k = "MemberAccess"
  => LET direct == HandleCall(Cfg, Rewritten(I.expression), I.expected_type)
     IN /\ agenda' = direct.agenda \o K
        /\ vals' = vals
        /\ <<program', heap', errors', pass1', history'>>
             = <<direct.c.program, direct.c.heap, direct.c.errors, direct.c.pass1,
                 direct.c.history>>

\* the Call nodes made for s.pair(1) have the receiver as first argument
ReceiverFirst ==
  \A k \in DOMAIN history :
    history[k].ev = "call" /\ history[k].ptr # Null
      => (program.functions[heap[history[k].ptr].template].name = "pair"
            => /\ Len(history[k].b) = 2
               /\ history[k].b[1].k = "Name"
               /\ history[k].b[2].k = "IntLiteral")

\* C17: a call r.f(a1, ..., an) is analysed as the call f(r, a1, ..., an):
\* the receiver is handled first, as the first argument, and from there on
\* the analysis is that of the direct call (the steps after the first depend
\* on the state only), so the overload chosen, the Call node and the errors
\* are the same.
C17_UniformCallSyntax == [][SameAsRewritten]_vars /\ []ReceiverFirst

\* a finished analysis in which s.pair(1).even() was resolved: pair with
\* the receiver s and the argument 1, even with the receiver s.pair(1)
C17_ReceiverCallsResolved ==
  /\ Done
  /\ \E k, j \in DOMAIN history :
       /\ k < j
       /\ history[k].ev = "call" /\ history[k].ptr # Null
       /\ program.functions[heap[history[k].ptr].template].name = "pair"
       /\ history[j].ev = "call" /\ history[j].ptr # Null
       /\ program.functions[heap[history[j].ptr].template].name = "even"
       /\ Len(history[j].b) = 1
       /\ history[j].b[1].k = "Call"

-----------------------------------------------------------------------------
(* C18 *)

\* how tightly the operator at the root of an expression binds: assignment
\* least, then equality, comparison, sum, product; an operand most
Binding(e) ==
  IF e.k = "Assignment" THEN 1
  ELSE IF e.k # "BinaryExpression" THEN 6
  ELSE IF e.operation \in {"EQ", "NE"} THEN 2
  ELSE IF e.operation \in {"LT", "LE", "GT", "GE"} THEN 3
  ELSE IF e.operation \in {"ADD", "SUB"} THEN 4
  ELSE 5

\* the tree of an expression written without parentheses: an operand of a
\* binary operation binds at least as tightly as the operation on its left
\* and more tightly on its right (left to right), the target of an
\* assignment binds more tightly than the assignment (right to left)
RECURSIVE Nested(_)
Nested(e) ==
  IF e.k = "BinaryExpression"
  THEN /\ Binding(e.left) >= Binding(e)
       /\ Binding(e.right) > Binding(e)
       /\ Nested(e.left) /\ Nested(e.right)
  ELSE IF e.k = "Assignment"
  THEN /\ Binding(e.left) > Binding(e)
       /\ Nested(e.left) /\ Nested(e.right)
  ELSE TRUE

\* the characters of the operands and operators of a tree, left to right
RECURSIVE Yield(_)
Yield(e) ==
  IF e.k = "Name" THEN e.name
  ELSE IF e.k = "IntLiteral" THEN <<CHOOSE c \in numeric_char : digit_value(c) = e.value>>
  ELSE IF e.k = "Assignment" THEN Yield(e.left) \o <<"=">> \o Yield(e.right)
  ELSE Yield(e.left)
         \o infix_operators[CHOOSE i \in DOMAIN infix_operators :
                               infix_operators[i].operation = e.operation].s
         \o Yield(e.right)

\* C18: the parser takes the whole of an expression and gives the tree that
\* its operators' precedence and associativity ask for (1 + 2 * 3 is
\* ADD(1, MUL(2, 3)), a - b - c is SUB(SUB(a, b), c), a = b = c is
\* Assignment(a, Assignment(b, c))), and the text the emitter prints for the
\* tree, every operation in parentheses, parses to the same tree.
C18_PrecedenceKept ==
  parser.goal = "expression" /\ parser.stage # "source"
    => /\ parser.result.result = "SUCCESS"
       /\ parser.result.position = Len(parser.source) + 1
       /\ Yield(parser.result.value) = SelectSeq(parser.source, LAMBDA c : c # " ")
       /\ Nested(parser.result.value)
       /\ parser.source = <<"1", " ", "+", " ", "2", " ", "*", " ", "3">>
            => parser.result.value
                 = BinaryExpression("ADD", IntLiteral(1),
                     BinaryExpression("MUL", IntLiteral(2), IntLiteral(3)))
       /\ parser.source = <<"a", " ", "-", " ", "b", " ", "-", " ", "c">>
            => parser.result.value
                 = BinaryExpression("SUB",
                     BinaryExpression("SUB", Name(<<"a">>), Name(<<"b">>)),
                     Name(<<"c">>))
       /\ parser.source = <<"a", " ", "=", " ", "b", " ", "=", " ", "c">>
            => parser.result.value
                 = Assignment(Name(<<"a">>), Assignment(Name(<<"b">>), Name(<<"c">>)))
       /\ parser.stage = "parsed again"
            => /\ parser.again.result = "SUCCESS"
               /\ parser.again.position = Len(parser.text) + 1
               /\ parser.again.value = parser.result.value

\* 1 + 2 * 3 has been parsed, printed as (1 + (2 * 3)) and parsed again
C18_SumOfProductPrinted ==
  /\ parser.stage = "parsed again"
  /\ parser.source = <<"1", " ", "+", " ", "2", " ", "*", " ", "3">>
  /\ parser.text = <<"(", "1", " ", "+", " ", "(", "2", " ", "*", " ", "3", ")", ")">>

-----------------------------------------------------------------------------
(* C19 *)

\* a text of whitespace and comments only, from position i on
RECURSIVE BlankFrom(_, _)
BlankFrom(source, i) ==
  IF i > Len(source) THEN TRUE
  ELSE IF source[i] \in {" ", "\t", "\n", "\r"} THEN BlankFrom(source, i + 1)
  ELSE IF i < Len(source) /\ source[i] = "/" /\ source[i + 1] = "/"
  THEN LET newlines == {j \in (i + 2)..Len(source) : source[j] = "\n"}
       IN newlines = {} \/ BlankFrom(source, CHOOSE j \in newlines :
                                               \A l \in newlines : j <= l)
  ELSE IF i < Len(source) /\ source[i] = "/" /\ source[i + 1] = "*"
  THEN LET closes == {j \in (i + 2)..(Len(source) - 1) :
                        source[j] = "*" /\ source[j + 1] = "/"}
       IN closes # {} /\ BlankFrom(source, 2 + CHOOSE j \in closes :
                                                 \A l \in closes : j <= l)
  ELSE FALSE

\* the program parser has accepted the text and collected no declaration
AcceptedEmpty ==
  /\ parser.result.result = "SUCCESS"
  /\ parser.result.value.functions = <<>>
  /\ parser.result.value.structures = <<>>
  /\ errors = <<>>

\* C19 as stated: the empty source text is a parse error at position 0,
\* "expected a function"; a text of whitespace and comments only is accepted
\* and gives a program without functions.
C19_EmptySourceIsError ==
  parser.goal = "program" /\ parser.stage = "parsed"
    => /\ parser.source = <<>>
            => /\ parser.result.result = "ERROR"
               /\ parser.result.position - 1 = 0
               /\ parser.result.error = "expected a function"
       /\ parser.source # <<>> /\ BlankFrom(parser.source, 1) => AcceptedEmpty

\* C19, amended: the empty source text is accepted and gives a program
\* without functions, as does a text of whitespace and comments only.
C19_BlankSourceAccepted ==
  parser.goal = "program" /\ parser.stage = "parsed"
    => (BlankFrom(parser.source, 1) => AcceptedEmpty)

\* the empty source text has been parsed
C19_EmptySourceParsed ==
  /\ parser.goal = "program"
  /\ parser.stage = "parsed"
  /\ parser.source = <<>>

-----------------------------------------------------------------------------
(* C20: the scopes are pushed and popped in pairs.                         *)

\* a call of instantiate_function or instantiate_structure that returns at
\* once (a wrong number of template arguments, or an instantiation made
\* before) leaves both scopes as they are
ReturnsAtOnceKeepsScopes ==
  (At("instantiate_function") \/ At("instantiate_structure"))
    /\ phase' = "analysing" /\ agenda' = K
    => /\ pass1'.variables = pass1.variables
       /\ pass1'.type_variables = pass1.type_variables

\* every return of handle_block ("block") and of an instantiation that was
\* made ("done") has left the scopes (b) that were current when it was
\* entered (a)
ScopesRestored ==
  \A i \in DOMAIN history :
    history[i].ev \in {"block", "done"} => history[i].b = history[i].a

\* C20: when handle_block, instantiate_function or instantiate_structure
\* returns, on any path and with or without errors, the current scope of the
\* variables and the current scope of the type variables are those of its
\* entry, and after the analysis both are the initial null pointer.
C20_ScopesPaired ==
  /\ [][ReturnsAtOnceKeepsScopes]_vars
  /\ [](ScopesRestored
        /\ (Done => pass1.variables = Null /\ pass1.type_variables = Null))

\* the analysis has ended with an error reported, after a block nested in a
\* block returned, a function was instantiated from within a block, a
\* structure was instantiated from within a function, and an instantiation
\* made before was asked for again
C20_NestedScopesRestored ==
  /\ Done /\ errors # <<>>
  /\ \E i, j \in DOMAIN history :
       /\ i < j
       /\ history[i].ev = "block" /\ history[j].ev = "block"
       /\ history[i].a[1] = history[j].ptr
  /\ \E i \in DOMAIN history :
       /\ history[i].ev = "done" /\ heap[history[i].ptr].kind = "FunctionInstantiation"
       /\ history[i].a[1] # Null /\ history[i].a[2] # Null
  /\ \E i \in DOMAIN history :
       /\ history[i].ev = "done" /\ heap[history[i].ptr].kind = "StructureInstantiation"
       /\ history[i].a[2] # Null
  /\ \E i, j \in DOMAIN history :
       /\ i < j
       /\ history[i].ev = "done" /\ history[j].ev = "demand"
       /\ history[j].ptr = history[i].ptr
       /\ \E l \in DOMAIN history : l > j /\ history[l].ev = "block"

-----------------------------------------------------------------------------
(* C21: the lookup of a variable is lexically scoped.                      *)

\* the scopes a lookup that begins at a scope goes through, the first one
\* first
RECURSIVE Chain(_)
Chain(scope) ==
  IF scope = Null THEN <<>>
  ELSE <<scope>> \o Chain(pass1.scopes[scope].parent)

\* the scopes of the blocks that are open in the function instantiation
\* whose body is being walked, the innermost first, and then the scope of
\* its parameters, as the calls that have not returned tell (pending: the
\* instantiations met whose parameters are still being made)
RECURSIVE OpenScopes(_, _)
OpenScopes(calls, pending) ==
  IF calls = <<>> THEN <<>>
  ELSE IF calls[1].op = "instantiate_function_variables"
  THEN OpenScopes(Tail(calls), pending + 1)
  ELSE IF calls[1].op = "instantiate_function_finish"
  THEN IF pending > 0 THEN OpenScopes(Tail(calls), pending - 1)
       ELSE <<calls[1].variables>>
  ELSE IF calls[1].op = "handle_block_finish" /\ pending = 0
  THEN <<calls[1].new_scope>> \o OpenScopes(Tail(calls), 0)
  ELSE OpenScopes(Tail(calls), pending)

\* the type the first of the scopes that binds the name gives it
RECURSIVE Innermost(_, _)
Innermost(scopes, name) ==
  IF scopes = <<>> THEN Null
  ELSE IF \E i \in DOMAIN pass1.scopes[scopes[1]].map :
            pass1.scopes[scopes[1]].map[i].name = name
  THEN LET i == CHOOSE i \in DOMAIN pass1.scopes[scopes[1]].map :
                  pass1.scopes[scopes[1]].map[i].name = name
       IN pass1.scopes[scopes[1]].map[i].value
  ELSE Innermost(Tail(scopes), name)

\* a Name is given the type of the innermost open block of the function
\* being walked that binds it, or of the parameter, and is undefined if
\* there is none
NameResolvedLexically ==
  At("handle_expression") /\ ~IsNull(I.expression) /\ I.expression.k = "Name"
    => LET type == Innermost(OpenScopes(agenda, 0), I.expression.name)
       IN IF type = Null
          THEN /\ IsNull(Top(vals'))
               /\ Len(errors') = Len(errors) + 1
          ELSE /\ ~IsNull(Top(vals'))
               /\ Top(vals').type = type
               /\ errors' = errors

\* C21: the scopes a lookup goes through are those of the blocks that are
\* open in the function being walked and of its parameters, so that a name
\* bound in a block is not visible after the block, an inner binding hides
\* an outer one until the inner block ends, and no variable of the caller
\* is visible in the body of the function a call demands.
C21_LexicalScoping ==
  /\ [][NameResolvedLexically]_vars
  /\ [](phase = "analysing" => Chain(pass1.variables) = OpenScopes(agenda, 0))

\* a is bound in main, hidden by a let of another type in a nested block and
\* undefined in the function called from that block, and after the block it
\* has the type of main's binding again
C21_ShadowedThenRestored ==
  /\ Done
  /\ \E i, j, k \in DOMAIN history :
       /\ i < j /\ j < k
       /\ history[i].ev = "name" /\ history[i].a = "a"
       /\ history[i].ptr # Null /\ heap[history[i].ptr].kind = "StructureInstantiation"
       /\ history[j].ev = "name" /\ history[j].a = "a" /\ history[j].ptr = Null
       /\ history[k].ev = "name" /\ history[k].a = "a"
       /\ history[k].ptr # Null /\ heap[history[k].ptr].kind = "IntType"

-----------------------------------------------------------------------------
(* C22: an entry of the memo of the function instantiations is resolved.   *)

\* the entries of the memo stay as they are, and so do the id, the template
\* arguments, the arguments and the return type of the instantiations in it
MemoKept ==
  \A i \in DOMAIN pass1.function_instantiations :
    LET p == pass1.function_instantiations[i].value
    IN /\ i \in DOMAIN pass1'.function_instantiations
       /\ pass1'.function_instantiations[i] = pass1.function_instantiations[i]
       /\ heap'[p].id = heap[p].id
       /\ heap'[p].template_arguments = heap[p].template_arguments
       /\ heap'[p].members = heap[p].members
       /\ heap'[p].return_type = heap[p].return_type

\* an instantiation in the memo has its id, the template arguments of its
\* key and a type for every parameter of its function; no key is there
\* twice; the instantiation whose body is walked is in the memo, and what a
\* demand for a key returns is the entry of the key
MemoResolved ==
  LET memo == pass1.function_instantiations
  IN /\ \A i \in DOMAIN memo :
          LET p == memo[i].value
          IN /\ heap[p].kind = "FunctionInstantiation"
             /\ heap[p].id > 0
             /\ heap[p].template = memo[i].key[1]
             /\ heap[p].template_arguments = memo[i].key[2]
             /\ Len(heap[p].members) = Len(program.functions[memo[i].key[1]].arguments)
     /\ \A i, j \in DOMAIN memo : memo[i].key = memo[j].key => i = j
     /\ \A k \in DOMAIN history :
          /\ history[k].ev = "walk"
               => \E i \in DOMAIN memo : memo[i].value = history[k].ptr
          /\ history[k].ev = "demand" /\ history[k].a = "function"
               => \E i \in DOMAIN memo :
                    memo[i].key = history[k].b /\ memo[i].value = history[k].ptr

\* C22: a function instantiation is put into the memo when its id, template
\* arguments, argument types and return type are set and before its body is
\* walked, a demand made during the walk gets this instantiation, and the
\* entry and these fields are never changed afterwards.
C22_MemoAbsentOrResolved == [][MemoKept]_vars /\ []MemoResolved

\* the body of an instantiation with a return type is being walked, and a
\* call in it has just got this instantiation from the memo
C22_DemandedDuringWalk ==
  /\ phase = "analysing"
  /\ history # <<>>
  /\ LET last == history[Len(history)]
     IN /\ last.ev = "demand" /\ last.a = "function"
        /\ heap[last.ptr].return_type # Null
        /\ \E k \in DOMAIN history : history[k].ev = "walk" /\ history[k].ptr = last.ptr
        /\ \A k \in DOMAIN history : ~(history[k].ev = "done" /\ history[k].ptr = last.ptr)

-----------------------------------------------------------------------------
(* C23: what a unification that succeeds has found.                        *)

\* the type is the one a type pattern of the function stands for when its
\* template parameters stand for the template arguments
RECURSIVE Denotes(_, _, _, _)
Denotes(pattern, function, template_arguments, type) ==
  IF type = Null THEN FALSE
  ELSE IF pattern.k = "Name"
  THEN IF \E i \in DOMAIN function.template_arguments :
            function.template_arguments[i] = pattern.name
       THEN \A i \in DOMAIN function.template_arguments :
              function.template_arguments[i] = pattern.name
                => template_arguments[i] = type
       ELSE IF pattern.name = "Int" THEN heap[type].kind = "IntType"
       ELSE IF pattern.name = "Void" THEN heap[type].kind = "VoidType"
       ELSE /\ heap[type].kind = "StructureInstantiation"
            /\ program.structures[heap[type].template].name = pattern.name
            /\ heap[type].template_arguments = <<>>
  ELSE IF pattern.k = "Call"
  THEN /\ pattern.expression.k = "Name"
       /\ heap[type].kind = "StructureInstantiation"
       /\ program.structures[heap[type].template].name = pattern.expression.name
       /\ Len(heap[type].template_arguments) = Len(pattern.arguments)
       /\ \A i \in DOMAIN pattern.arguments :
            Denotes(pattern.arguments[i], function, template_arguments,
                    heap[type].template_arguments[i])
  ELSE FALSE

\* a function of another number of parameters than the call has arguments
\* is no candidate
ArityChecked ==
  At("Unification_run")
    /\ Len(program.functions[I.function].arguments) # Len(Top(vals).arguments)
    => agenda' = K /\ vals' = vals

\* the function that the unification makes a candidate has a type for every
\* template parameter, and with these types every parameter pattern stands
\* for the type of its argument and, if a type is expected, the pattern of
\* the return type stands for this type
CandidateSound ==
  At("Unification_finish") /\ Top(vals').match_count > Top(Pop(vals)).match_count
    => LET u == Top(vals)
           found == Top(Pop(vals))
           function == program.functions[u.function]
           template_arguments == Top(vals').match_template_arguments
       IN /\ Top(vals').match_function = u.function
          /\ Len(function.arguments) = Len(found.arguments)
          /\ Len(template_arguments) = Len(function.template_arguments)
          /\ \A i \in DOMAIN template_arguments : template_arguments[i] # Null
          /\ \A i \in DOMAIN function.arguments :
               /\ ~IsNull(found.arguments[i])
               /\ Denotes(function.arguments[i].type, function, template_arguments,
                          found.arguments[i].type)
          /\ found.return_type # Null
               => Denotes(function.return_type, function, template_arguments,
                          found.return_type)

\* C23: a function is a candidate of a call only if it has as many
\* parameters as the call has arguments, every parameter pattern matches the
\* type of its argument, a template parameter has the identical type at all
\* its occurrences (the return type included when a type is expected) and
\* every template parameter has a type in the end; the template arguments
\* found are the types the parameters stand for.
C23_UnificationSound == [][ArityChecked /\ CandidateSound]_vars

\* same<T>(a: T, b: T) was a candidate for two Int arguments and none for an
\* Int and an S, id<T>(x: T): T was none for an Int where an S is expected,
\* and fresh<T>() was none because T got no type
C23_RepeatedParameter ==
  LET Unified(name, ok) ==
        {i \in DOMAIN history :
           /\ history[i].ev = "unify"
           /\ program.functions[history[i].ptr].name = name
           /\ history[i].b = ok}
  IN /\ Done
     /\ Unified("same", TRUE) # {}
     /\ \E j \in Unified("same", FALSE) : history[j].a # <<>> /\ history[j].a[1] # Null
     /\ \E k \in Unified("id", FALSE) : history[k].a # <<>> /\ history[k].a[1] # Null
     /\ \E l \in Unified("fresh", FALSE) : history[l].a = <<Null>>

-----------------------------------------------------------------------------
(* C24: the scope of the type variables.                                   *)

\* the instantiations that are being built, the innermost first: [scope,
\* names, types], the scope of its type variables, the names of its template
\* parameters and its template arguments
Building ==
  LET unfinished == SelectSeq(agenda, LAMBDA i : i.op \in {"instantiate_function_finish",
                                                          "instantiate_structure_finish"})
  IN [j \in DOMAIN unfinished |->
        IF unfinished[j].op = "instantiate_function_finish"
        THEN [scope |-> unfinished[j].type_variables,
              names |-> program.functions[heap[unfinished[j].new_function].template]
                          .template_arguments,
              types |-> heap[unfinished[j].new_function].template_arguments]
        ELSE [scope |-> unfinished[j].type_variables,
              names |-> program.structures[heap[unfinished[j].new_structure].template]
                          .template_arguments,
              types |-> heap[unfinished[j].new_structure].template_arguments]]

\* the scope of the type variables is the one of the innermost instantiation
\* being built, it has no parent, and every scope of an instantiation being
\* built binds the template parameters of it to its template arguments and
\* nothing else
TypeScopeIsOwn ==
  phase = "analysing"
    => LET building == Building
       IN /\ pass1.type_variables = IF building = <<>> THEN Null ELSE building[1].scope
          /\ \A j \in DOMAIN building :
               /\ pass1.scopes[building[j].scope].parent = Null
               /\ pass1.scopes[building[j].scope].map
                    = [i \in DOMAIN building[j].names |->
                         [name |-> building[j].names[i], value |-> building[j].types[i]]]

\* a Name that is a template parameter of the innermost instantiation being
\* built is its template argument, whatever else has this name; any other
\* Name is looked up among the named types
TypeNameResolved ==
  At("handle_type") /\ ~IsNull(I.expression) /\ I.expression.k = "Name"
    => LET own == Building[1]
           name == I.expression.name
       IN IF \E i \in DOMAIN own.names : own.names[i] = name
          THEN /\ agenda' = K
               /\ \E i \in DOMAIN own.names :
                    own.names[i] = name /\ vals' = Append(vals, own.types[i])
          ELSE /\ agenda' = <<DoGetType(name, 0)>> \o K
               /\ vals' = vals

\* C24: the type of a Name is looked up among the type variables first and
\* then among the named types; the type variables are the template
\* parameters of the instantiation being built and no others, those of the
\* instantiation that demanded it are not visible, and they are the same as
\* before once the demanded instantiation has returned.
C24_TypeVariablesOwn == [][TypeNameResolved]_vars /\ []TypeScopeIsOwn

\* S, a template parameter and the name of a structure, was taken for the
\* template argument Int; T, a template parameter of relay, was not found
\* in inner, which relay calls, and was relay's template argument before
\* and after the call
C24_CallerParameterHidden ==
  /\ Done
  /\ \E i \in DOMAIN history :
       /\ history[i].ev = "type" /\ history[i].a = "S"
       /\ history[i].ptr # Null /\ heap[history[i].ptr].kind = "IntType"
  /\ \E j \in DOMAIN history :
       /\ history[j].ev = "type" /\ history[j].a = "T" /\ history[j].ptr = Null
       /\ \E i, k \in DOMAIN history :
            /\ i < j /\ j < k
            /\ history[i].ev = "type" /\ history[i].a = "T" /\ history[i].ptr # Null
            /\ history[k].ev = "type" /\ history[k].a = "T"
            /\ history[k].ptr = history[i].ptr /\ history[k].b = history[i].b
            /\ history[j].b # history[i].b

-----------------------------------------------------------------------------
(* C25: the one function the emitter does not emit from its body.          *)

\* the positions in the output where the definition of a function
\* instantiation begins, the comment with its name, and the position where
\* the last one ends, the C function main
Headers == {p \in DOMAIN output : output[p] \in {Txt("// "), Txt("int main(void) {")}}

\* the text of the definition of the k-th function instantiation, after the
\* line of the comment with its name and without the end of its last line
DefinitionText(k) ==
  LET from == CHOOSE p \in Headers : Cardinality({q \in Headers : q < p}) = k - 1
      to == CHOOSE p \in Headers : Cardinality({q \in Headers : q < p}) = k
  IN SubSeq(output, from + 3, to - 2)

\* the function the C function printf stands for
PrintIntShape(function) ==
  LET template == program.functions[heap[function].template]
      arguments == heap[function].members
  IN /\ template.name = "print_int"
     /\ Len(template.template_arguments) = 0
     /\ Len(arguments) = 1 /\ heap[arguments[1].type].kind = "IntType"
     /\ heap[heap[function].return_type].kind = "VoidType"
     /\ Len(heap[function].block) = 0

\* C25: the definition of a function instantiation is the one that calls
\* printf if and only if its template is named print_int, has no template
\* parameters and one argument, of type Int, returns Void and has no
\* statements; the definition of every other one is its own block.
C25_PrintIntOnlyBuiltin ==
  phase = "emitted"
    => /\ Cardinality(Headers) = Len(program.function_instantiations) + 1
       /\ \A k \in DOMAIN program.function_instantiations :
            LET function == program.function_instantiations[k]
            IN /\ PrintIntShape(function)
                    <=> \E p \in DOMAIN DefinitionText(k) :
                          DefinitionText(k)[p] = Txt("printf(\"%d\\n\", ")
               /\ ~PrintIntShape(function)
                    => DefinitionText(k) = PrintFunctionHead(function) \o <<Txt(" ")>>
                                             \o PrintBlock(heap[function].block)

\* print_int(x: Int) was emitted with printf, and a function of the same
\* shape and another name, a print_int of a structure and a print_int of
\* two arguments were emitted with their empty blocks
C25_LookalikesFromBody ==
  /\ phase = "emitted"
  /\ \E k \in DOMAIN program.function_instantiations :
       /\ PrintIntShape(program.function_instantiations[k])
       /\ DefinitionText(k)[1] = Txt("int printf(const char*, ...);")
  /\ \E k \in DOMAIN program.function_instantiations :
       LET function == program.function_instantiations[k]
       IN /\ program.functions[heap[function].template].name # "print_int"
          /\ Len(heap[function].members) = 1
          /\ heap[heap[function].members[1].type].kind = "IntType"
          /\ heap[heap[function].return_type].kind = "VoidType"
          /\ heap[function].block = <<>>
          /\ DefinitionText(k) = PrintFunctionHead(function)
                                 \o <<Txt(" "), Txt("{"), Ln, Txt("}")>>
  /\ \E k \in DOMAIN program.function_instantiations :
       LET function == program.function_instantiations[k]
       IN /\ program.functions[heap[function].template].name = "print_int"
          /\ heap[heap[function].members[1].type].kind = "StructureInstantiation"
          /\ DefinitionText(k) = PrintFunctionHead(function)
                                 \o <<Txt(" "), Txt("{"), Ln, Txt("}")>>
  /\ \E k \in DOMAIN program.function_instantiations :
       LET function == program.function_instantiations[k]
       IN /\ program.functions[heap[function].template].name = "print_int"
          /\ Len(heap[function].members) = 2
          /\ DefinitionText(k) = PrintFunctionHead(function)
                                 \o <<Txt(" "), Txt("{"), Ln, Txt("}")>>

-----------------------------------------------------------------------------
(* C26: what the examination of the functions of a name leaves behind.     *)

\* C26: a call that one function of its name matches has added no error:
\* there are as many errors when the function is selected as there were
\* when the lookup of the name began, whatever the types of the parameters
\* of the other functions of this name are.
C26_ExaminingIsSilent ==
  \A k \in DOMAIN history :
    history[k].ev = "select" /\ history[k].a[2] = 1
      => history[LastBefore("lookup", k)].b[2] = history[k].a[3]

\* h(1) has selected h(x: Int), and the analysis has ended with errors that
\* name the types of the parameters of the two other functions named h
C26_RejectedForOtherCandidates ==
  /\ phase = "analysed"
  /\ \E k \in DOMAIN history :
       /\ history[k].ev = "select" /\ history[k].a[1] = "h" /\ history[k].a[2] = 1
       /\ program.functions[history[k].ptr].arguments[1].type = Name("Int")
       /\ history[k].a[3] = history[LastBefore("lookup", k)].b[2] + 2
  /\ \E i, j \in DOMAIN errors : errors[i].name = "Unknown" /\ errors[j].name = "Box"

-----------------------------------------------------------------------------
(* C27: a second let of a name.                                            *)

\* once a let statement of a name is analysed and has a type, the name
\* stands for this type in the scope of the let statement
LetBinds ==
  At("handle_let_statement")
    => LET let == history'[Len(history')]
       IN let.ptr # Null
            => ScopeMap_look_up([pass1 |-> pass1'], pass1'.variables, I.name) = let.ptr

\* C27: after a let statement of the name n, n is looked up as the type of
\* this let statement, also when there is a let statement of n before it in
\* the same block.
C27_LetRebinds == [][LetBinds]_vars

\* a program without errors in which n is declared an Int and then an S in
\* one block, and is an Int where it is used after that
C27_SecondLetIgnored ==
  /\ phase = "emitted"
  /\ \E i, j, k \in DOMAIN history :
       /\ i < j /\ j < k
       /\ history[i].ev = "let" /\ heap[history[i].ptr].kind = "IntType"
       /\ history[j].ev = "let" /\ heap[history[j].ptr].kind = "StructureInstantiation"
       /\ history[k].ev = "name" /\ history[k].a = "n" /\ history[k].ptr = history[i].ptr

-----------------------------------------------------------------------------
(* C28: the return statements of an accepted program.                      *)

\* a return statement agrees with a return type: no expression for Void,
\* and else an expression of this type
ReturnAgrees(statement, return_type) ==
  IF heap[return_type].kind = "VoidType" THEN IsNull(statement.expression)
  ELSE ~IsNull(statement.expression) /\ statement.expression.type = return_type

\* C28: in a program that was analysed without an error, every return
\* statement in the body of a function instantiation returns an expression
\* of the return type of the instantiation, and none if that is Void.
C28_ReturnsAgree ==
  Accepted
    => \A f \in ListedFunctions :
         \A i \in DOMAIN IRStatements(f) :
           IRStatements(f)[i].k = "ReturnStatement"
             => ReturnAgrees(IRStatements(f)[i], heap[f].return_type)

\* C code was emitted for a main without a return type that returns an Int
\* and an S
C28_VoidMainReturnsValues ==
  /\ phase = "emitted"
  /\ \E f \in ListedFunctions :
       /\ heap[f].id = program.main_function_id
       /\ heap[heap[f].return_type].kind = "VoidType"
       /\ \E i, j \in DOMAIN IRStatements(f) :
            /\ IRStatements(f)[i].k = "ReturnStatement"
            /\ IRStatements(f)[j].k = "ReturnStatement"
            /\ heap[IRStatements(f)[i].expression.type].kind = "IntType"
            /\ heap[IRStatements(f)[j].expression.type].kind = "StructureInstantiation"

-----------------------------------------------------------------------------
(* C29: the text of the expressions.                                       *)

\* C29: in the emitted program every expression of the body of every
\* function instantiation is printed as a text that is not empty.
C29_NoEmptyExpression ==
  phase = "emitted"
    => \A f \in ListedFunctions :
         \A i \in DOMAIN IRExpressions(f) : PrintExpression(IRExpressions(f)[i]) # <<>>

\* C code was emitted with a statement `if () return;`: the condition is an
\* access to a member
C29_EmptyCondition ==
  /\ phase = "emitted"
  /\ \E p \in DOMAIN output :
       /\ p + 1 \in DOMAIN output
       /\ output[p] = Txt("if (") /\ output[p + 1] = Txt(") ")
  /\ \E f \in ListedFunctions : \E i \in DOMAIN IRStatements(f) :
       /\ IRStatements(f)[i].k = "IfStatement"
       /\ IRStatements(f)[i].condition.k = "MemberAccess"

-----------------------------------------------------------------------------
(* C30: the end of the analysis.                                           *)

\* C30: the analysis of every program comes to its end: it is never cut off
\* because it demands an instantiation after MaxId of them, however the
\* generic functions and structures of the program demand themselves.
C30_AnalysisEnds == phase # "diverged"

\* only the programs that call grow or name G are cut off
CutOffOnlyForSelfGrowing ==
  phase = "diverged" => \E i \in DOMAIN input : input[i] \in {22, 23}

\* the instantiations of a function or structure of a name
InstantiationsNamed(name) ==
  {p \in DOMAIN heap :
     IF heap[p].kind = "FunctionInstantiation"
     THEN program.functions[heap[p].template].name = name
     ELSE heap[p].kind = "StructureInstantiation"
          /\ program.structures[heap[p].template].name = name}

\* the analysis was cut off with instantiations of grow and none of them
\* finished: each one but the last has demanded grow for the Box of its own
\* template argument
C30_EachGrowDemandsNext ==
  /\ phase = "diverged"
  /\ Cardinality(InstantiationsNamed("grow")) >= 5
  /\ InstantiationsNamed("grow") \cap ListedFunctions = {}
  /\ \E last \in InstantiationsNamed("grow") :
       \A p \in InstantiationsNamed("grow") \ {last} :
         \E q \in InstantiationsNamed("grow"), box \in InstantiationsNamed("Box") :
           /\ heap[q].template_arguments = <<box>>
           /\ heap[box].template_arguments = heap[p].template_arguments

\* the same with the structure G: each instantiation but the last has
\* demanded G of itself for its member
C30_EachGDemandsNext ==
  /\ phase = "diverged"
  /\ Cardinality(InstantiationsNamed("G")) >= 5
  /\ InstantiationsNamed("G") \cap ListedTypes = {}
  /\ \E last \in InstantiationsNamed("G") :
       \A p \in InstantiationsNamed("G") \ {last} :
         \E q \in InstantiationsNamed("G") : heap[q].template_arguments = <<p>>

=============================================================================
